---- MODULE Spec2Model ----
(***************************************************************************)
(* Meal recognition and nutrition pipeline of app/services/meal_service.py *)
(* (MealRecognitionService) as used by app/routes/meals.py.                *)
(*                                                                         *)
(* Numbers.  The code computes with floats; the model keeps exact          *)
(* integers:                                                               *)
(*   - a colour percentage is the pair (bucket count, num_pixels) and a    *)
(*     test "pct > t" is  count * 100 > t * num_pixels;                    *)
(*   - brightness is total_rgb / (3 * num_pixels);                         *)
(*   - aspect_ratio is width / height;                                     *)
(*   - confidences are in hundredths (0.92 is 92);                         *)
(*   - FOOD_DATABASE values per 100 units are in hundredths (3.6 is 360);  *)
(*   - calories and macros of a nutrition record are in tenths, the unit   *)
(*     of round(x, 1).                                                     *)
(* Food names are sequences of one-character strings, so that lower(),     *)
(* strip() and the substring test of the grain filter are computed.        *)
(***************************************************************************)
EXTENDS Integers, Sequences, FiniteSets, TLC

VARIABLES
    pc,                 \* "ready" before the call, "returned" after it
    image,              \* input of the last recognition call (None before any)
    recognized,         \* what _mock_food_recognition returned for it
    nutrition_api_key,  \* MealRecognitionService.nutrition_api_key
    request,            \* arguments of the last get_nutrition_for_food call
    nutrition,          \* what that call returned (or that it raised)
    food_items,         \* argument of the last analyze_meal call
    analysis,           \* what analyze_meal returned for it
    grams,              \* arguments of the last calculate_macro_percentages call
    percentages,        \* what it returned, in each of its variants
    module,             \* the service module in use: meal_service or meal_service_v2
    calls,              \* the results of the recognition calls made so far
    users,              \* table users
    verification_codes, \* table email_verification_codes
    workouts,           \* table workouts
    workout_exercises,  \* table workout_exercises
    meals,              \* table meals
    meal_items,         \* table meal_items
    http_request,       \* the last HTTP request handled
    http_response,      \* the response it was given
    request_count,      \* how many requests the workout routes have handled
    sessions            \* requests in flight: what each has read and not yet committed

meal_vars == <<food_items, analysis, grams, percentages, module, calls>>

api_vars == <<users, verification_codes, workouts, workout_exercises, meals, meal_items,
              http_request, http_response, request_count, sessions>>

vars == <<pc, image, recognized, nutrition_api_key, request, nutrition, meal_vars, api_vars>>

\* Python's None, and a value that is not None
None == <<>>
Some(x) == <<x>>

\* no analyze_meal, calculate_macro_percentages or repeated recognition call is made
MealIdle ==
    /\ food_items = None
    /\ analysis = None
    /\ grams = None
    /\ percentages = None
    /\ module = "meal_service"
    /\ calls = <<>>

\* the HTTP API is not used: empty tables, no request
ApiIdle ==
    /\ users = {}
    /\ verification_codes = {}
    /\ workouts = {}
    /\ workout_exercises = {}
    /\ meals = {}
    /\ meal_items = {}
    /\ http_request = None
    /\ http_response = None
    /\ request_count = 0
    /\ sessions = {}

(***************************************************************************)
(* Strings: str.lower(), str.strip(), the "in" substring test.             *)
(***************************************************************************)
\* str.lower() on the ASCII letters
LowerCase ==
    [A |-> "a", B |-> "b", C |-> "c", D |-> "d", E |-> "e", F |-> "f", G |-> "g",
     H |-> "h", I |-> "i", J |-> "j", K |-> "k", L |-> "l", M |-> "m", N |-> "n",
     O |-> "o", P |-> "p", Q |-> "q", R |-> "r", S |-> "s", T |-> "t", U |-> "u",
     V |-> "v", W |-> "w", X |-> "x", Y |-> "y", Z |-> "z"]
Whitespace == {" ", "\t", "\n"}

LowerChar(c) == IF c \in DOMAIN LowerCase THEN LowerCase[c] ELSE c

Lower(s) == [i \in 1..Len(s) |-> LowerChar(s[i])]

RECURSIVE LStrip(_)
LStrip(s) == IF s # <<>> /\ Head(s) \in Whitespace THEN LStrip(Tail(s)) ELSE s

RECURSIVE RStrip(_)
RStrip(s) ==
    IF s # <<>> /\ s[Len(s)] \in Whitespace THEN RStrip(SubSeq(s, 1, Len(s) - 1)) ELSE s

Strip(s) == RStrip(LStrip(s))

\* the Python str a character sequence stands for (dictionary keys are strs)
RECURSIVE Str(_)
Str(s) == IF s = <<>> THEN "" ELSE Head(s) \o Str(Tail(s))

\* Python's  t in s  for strings
Contains(s, t) ==
    \E i \in 0..(Len(s) - Len(t)) : SubSeq(s, i + 1, i + Len(t)) = t

\* the food-name literals of _mock_food_recognition and of grain_types
Name ==
    [
     mloukhia |-> <<"m","l","o","u","k","h","i","a">>,
     rice |-> <<"r","i","c","e">>,
     mixed_salad |-> <<"m","i","x","e","d"," ","s","a","l","a","d">>,
     grilled_chicken |-> <<"g","r","i","l","l","e","d"," ","c","h","i","c","k","e","n">>,
     white_rice |-> <<"w","h","i","t","e"," ","r","i","c","e">>,
     couscous |-> <<"c","o","u","s","c","o","u","s">>,
     pasta |-> <<"p","a","s","t","a">>,
     lamb |-> <<"l","a","m","b">>,
     merguez |-> <<"m","e","r","g","u","e","z">>,
     mixed_vegetables |-> <<"m","i","x","e","d"," ","v","e","g","e","t","a","b","l","e","s">>,
     sweet_potato |-> <<"s","w","e","e","t"," ","p","o","t","a","t","o">>,
     carrots |-> <<"c","a","r","r","o","t","s">>,
     beef_steak |-> <<"b","e","e","f"," ","s","t","e","a","k">>,
     tomato_sauce |-> <<"t","o","m","a","t","o"," ","s","a","u","c","e">>,
     tomato |-> <<"t","o","m","a","t","o">>,
     red_bell_pepper |-> <<"r","e","d"," ","b","e","l","l"," ","p","e","p","p","e","r">>,
     scrambled_eggs |-> <<"s","c","r","a","m","b","l","e","d"," ","e","g","g","s">>,
     chicken |-> <<"c","h","i","c","k","e","n">>,
     fruit_juice |-> <<"f","r","u","i","t"," ","j","u","i","c","e">>,
     orange_juice |-> <<"o","r","a","n","g","e"," ","j","u","i","c","e">>,
     juice |-> <<"j","u","i","c","e">>,
     smoothie |-> <<"s","m","o","o","t","h","i","e">>,
     soup |-> <<"s","o","u","p">>,
     brown_rice |-> <<"b","r","o","w","n"," ","r","i","c","e">>,
     bread |-> <<"b","r","e","a","d">>,
     potato |-> <<"p","o","t","a","t","o">>,
     noodles |-> <<"n","o","o","d","l","e","s">>,
     broccoli |-> <<"b","r","o","c","c","o","l","i">>,
     toast |-> <<"t","o","a","s","t">>,
     bacon |-> <<"b","a","c","o","n">>,
     salmon |-> <<"s","a","l","m","o","n">>,
     asparagus |-> <<"a","s","p","a","r","a","g","u","s">>,
     eggs |-> <<"e","g","g","s">>,
     chicken_breast |-> <<"c","h","i","c","k","e","n"," ","b","r","e","a","s","t">>,
     salad |-> <<"s","a","l","a","d">>,
     apple |-> <<"a","p","p","l","e">>,
     almonds |-> <<"a","l","m","o","n","d","s">>
    ]

FOOD_DATABASE ==
       ("chicken breast" :> [calories |-> 16500, protein |-> 3100, carbs |-> 0, fats |-> 360, serving_size |-> 150, unit |-> "g"])
    @@ ("grilled chicken" :> [calories |-> 16500, protein |-> 3100, carbs |-> 0, fats |-> 360, serving_size |-> 150, unit |-> "g"])
    @@ ("chicken" :> [calories |-> 23900, protein |-> 2700, carbs |-> 0, fats |-> 1400, serving_size |-> 150, unit |-> "g"])
    @@ ("beef steak" :> [calories |-> 27100, protein |-> 2600, carbs |-> 0, fats |-> 1800, serving_size |-> 200, unit |-> "g"])
    @@ ("steak" :> [calories |-> 27100, protein |-> 2600, carbs |-> 0, fats |-> 1800, serving_size |-> 200, unit |-> "g"])
    @@ ("salmon" :> [calories |-> 20800, protein |-> 2000, carbs |-> 0, fats |-> 1300, serving_size |-> 150, unit |-> "g"])
    @@ ("fish" :> [calories |-> 15000, protein |-> 2500, carbs |-> 0, fats |-> 500, serving_size |-> 150, unit |-> "g"])
    @@ ("tuna" :> [calories |-> 13000, protein |-> 2900, carbs |-> 0, fats |-> 60, serving_size |-> 150, unit |-> "g"])
    @@ ("shrimp" :> [calories |-> 9900, protein |-> 2400, carbs |-> 20, fats |-> 30, serving_size |-> 100, unit |-> "g"])
    @@ ("eggs" :> [calories |-> 15500, protein |-> 1300, carbs |-> 110, fats |-> 1100, serving_size |-> 100, unit |-> "g"])
    @@ ("egg" :> [calories |-> 7800, protein |-> 600, carbs |-> 60, fats |-> 500, serving_size |-> 50, unit |-> "g"])
    @@ ("scrambled eggs" :> [calories |-> 16600, protein |-> 1100, carbs |-> 220, fats |-> 1200, serving_size |-> 150, unit |-> "g"])
    @@ ("turkey" :> [calories |-> 18900, protein |-> 2900, carbs |-> 0, fats |-> 700, serving_size |-> 150, unit |-> "g"])
    @@ ("pork chop" :> [calories |-> 23100, protein |-> 2500, carbs |-> 0, fats |-> 1400, serving_size |-> 150, unit |-> "g"])
    @@ ("bacon" :> [calories |-> 54100, protein |-> 3700, carbs |-> 140, fats |-> 4200, serving_size |-> 30, unit |-> "g"])
    @@ ("tofu" :> [calories |-> 7600, protein |-> 800, carbs |-> 190, fats |-> 480, serving_size |-> 150, unit |-> "g"])
    @@ ("rice" :> [calories |-> 13000, protein |-> 270, carbs |-> 2800, fats |-> 30, serving_size |-> 200, unit |-> "g"])
    @@ ("white rice" :> [calories |-> 13000, protein |-> 270, carbs |-> 2800, fats |-> 30, serving_size |-> 200, unit |-> "g"])
    @@ ("brown rice" :> [calories |-> 12300, protein |-> 270, carbs |-> 2600, fats |-> 100, serving_size |-> 200, unit |-> "g"])
    @@ ("pasta" :> [calories |-> 13100, protein |-> 500, carbs |-> 2500, fats |-> 110, serving_size |-> 200, unit |-> "g"])
    @@ ("spaghetti" :> [calories |-> 13100, protein |-> 500, carbs |-> 2500, fats |-> 110, serving_size |-> 200, unit |-> "g"])
    @@ ("bread" :> [calories |-> 26500, protein |-> 900, carbs |-> 4900, fats |-> 320, serving_size |-> 50, unit |-> "g"])
    @@ ("toast" :> [calories |-> 26500, protein |-> 900, carbs |-> 4900, fats |-> 320, serving_size |-> 50, unit |-> "g"])
    @@ ("potato" :> [calories |-> 7700, protein |-> 200, carbs |-> 1700, fats |-> 10, serving_size |-> 150, unit |-> "g"])
    @@ ("french fries" :> [calories |-> 31200, protein |-> 340, carbs |-> 4100, fats |-> 1500, serving_size |-> 150, unit |-> "g"])
    @@ ("fries" :> [calories |-> 31200, protein |-> 340, carbs |-> 4100, fats |-> 1500, serving_size |-> 150, unit |-> "g"])
    @@ ("sweet potato" :> [calories |-> 8600, protein |-> 160, carbs |-> 2000, fats |-> 10, serving_size |-> 150, unit |-> "g"])
    @@ ("oatmeal" :> [calories |-> 6800, protein |-> 240, carbs |-> 1200, fats |-> 140, serving_size |-> 250, unit |-> "g"])
    @@ ("cereal" :> [calories |-> 37900, protein |-> 700, carbs |-> 8400, fats |-> 100, serving_size |-> 40, unit |-> "g"])
    @@ ("quinoa" :> [calories |-> 12000, protein |-> 440, carbs |-> 2100, fats |-> 190, serving_size |-> 185, unit |-> "g"])
    @@ ("salad" :> [calories |-> 2000, protein |-> 150, carbs |-> 350, fats |-> 20, serving_size |-> 150, unit |-> "g"])
    @@ ("mixed salad" :> [calories |-> 2000, protein |-> 150, carbs |-> 350, fats |-> 20, serving_size |-> 200, unit |-> "g"])
    @@ ("broccoli" :> [calories |-> 3400, protein |-> 280, carbs |-> 700, fats |-> 40, serving_size |-> 100, unit |-> "g"])
    @@ ("carrots" :> [calories |-> 4100, protein |-> 90, carbs |-> 1000, fats |-> 20, serving_size |-> 80, unit |-> "g"])
    @@ ("spinach" :> [calories |-> 2300, protein |-> 290, carbs |-> 360, fats |-> 40, serving_size |-> 100, unit |-> "g"])
    @@ ("tomato" :> [calories |-> 1800, protein |-> 90, carbs |-> 390, fats |-> 20, serving_size |-> 100, unit |-> "g"])
    @@ ("cucumber" :> [calories |-> 1600, protein |-> 70, carbs |-> 360, fats |-> 10, serving_size |-> 100, unit |-> "g"])
    @@ ("corn" :> [calories |-> 8600, protein |-> 320, carbs |-> 1900, fats |-> 120, serving_size |-> 100, unit |-> "g"])
    @@ ("beans" :> [calories |-> 12700, protein |-> 870, carbs |-> 2300, fats |-> 50, serving_size |-> 100, unit |-> "g"])
    @@ ("green beans" :> [calories |-> 3100, protein |-> 180, carbs |-> 700, fats |-> 10, serving_size |-> 100, unit |-> "g"])
    @@ ("mushrooms" :> [calories |-> 2200, protein |-> 310, carbs |-> 330, fats |-> 30, serving_size |-> 100, unit |-> "g"])
    @@ ("avocado" :> [calories |-> 16000, protein |-> 200, carbs |-> 900, fats |-> 1500, serving_size |-> 100, unit |-> "g"])
    @@ ("apple" :> [calories |-> 5200, protein |-> 30, carbs |-> 1400, fats |-> 20, serving_size |-> 180, unit |-> "g"])
    @@ ("banana" :> [calories |-> 8900, protein |-> 110, carbs |-> 2300, fats |-> 30, serving_size |-> 120, unit |-> "g"])
    @@ ("orange" :> [calories |-> 4700, protein |-> 90, carbs |-> 1200, fats |-> 10, serving_size |-> 150, unit |-> "g"])
    @@ ("strawberries" :> [calories |-> 3200, protein |-> 70, carbs |-> 770, fats |-> 30, serving_size |-> 150, unit |-> "g"])
    @@ ("blueberries" :> [calories |-> 5700, protein |-> 70, carbs |-> 1400, fats |-> 30, serving_size |-> 150, unit |-> "g"])
    @@ ("grapes" :> [calories |-> 6900, protein |-> 70, carbs |-> 1800, fats |-> 20, serving_size |-> 150, unit |-> "g"])
    @@ ("watermelon" :> [calories |-> 3000, protein |-> 60, carbs |-> 800, fats |-> 20, serving_size |-> 200, unit |-> "g"])
    @@ ("mango" :> [calories |-> 6000, protein |-> 80, carbs |-> 1500, fats |-> 40, serving_size |-> 150, unit |-> "g"])
    @@ ("pineapple" :> [calories |-> 5000, protein |-> 50, carbs |-> 1300, fats |-> 10, serving_size |-> 150, unit |-> "g"])
    @@ ("milk" :> [calories |-> 4200, protein |-> 340, carbs |-> 500, fats |-> 100, serving_size |-> 250, unit |-> "ml"])
    @@ ("cheese" :> [calories |-> 40200, protein |-> 2500, carbs |-> 130, fats |-> 3300, serving_size |-> 30, unit |-> "g"])
    @@ ("yogurt" :> [calories |-> 5900, protein |-> 1000, carbs |-> 360, fats |-> 40, serving_size |-> 200, unit |-> "g"])
    @@ ("greek yogurt" :> [calories |-> 5900, protein |-> 1000, carbs |-> 360, fats |-> 40, serving_size |-> 200, unit |-> "g"])
    @@ ("butter" :> [calories |-> 71700, protein |-> 90, carbs |-> 10, fats |-> 8100, serving_size |-> 14, unit |-> "g"])
    @@ ("ice cream" :> [calories |-> 20700, protein |-> 350, carbs |-> 2400, fats |-> 1100, serving_size |-> 100, unit |-> "g"])
    @@ ("pizza" :> [calories |-> 26600, protein |-> 1100, carbs |-> 3300, fats |-> 1000, serving_size |-> 150, unit |-> "g"])
    @@ ("pizza slice" :> [calories |-> 28500, protein |-> 1200, carbs |-> 3600, fats |-> 1000, serving_size |-> 107, unit |-> "g"])
    @@ ("burger" :> [calories |-> 29500, protein |-> 1700, carbs |-> 2400, fats |-> 1400, serving_size |-> 150, unit |-> "g"])
    @@ ("hamburger" :> [calories |-> 29500, protein |-> 1700, carbs |-> 2400, fats |-> 1400, serving_size |-> 150, unit |-> "g"])
    @@ ("hot dog" :> [calories |-> 29000, protein |-> 1000, carbs |-> 2400, fats |-> 1800, serving_size |-> 100, unit |-> "g"])
    @@ ("sandwich" :> [calories |-> 25000, protein |-> 1200, carbs |-> 3000, fats |-> 1000, serving_size |-> 150, unit |-> "g"])
    @@ ("tacos" :> [calories |-> 22600, protein |-> 900, carbs |-> 2000, fats |-> 1300, serving_size |-> 100, unit |-> "g"])
    @@ ("burrito" :> [calories |-> 20600, protein |-> 800, carbs |-> 2500, fats |-> 800, serving_size |-> 200, unit |-> "g"])
    @@ ("sushi" :> [calories |-> 14500, protein |-> 600, carbs |-> 3000, fats |-> 50, serving_size |-> 150, unit |-> "g"])
    @@ ("fried rice" :> [calories |-> 16300, protein |-> 400, carbs |-> 2200, fats |-> 600, serving_size |-> 200, unit |-> "g"])
    @@ ("noodles" :> [calories |-> 13800, protein |-> 450, carbs |-> 2500, fats |-> 200, serving_size |-> 200, unit |-> "g"])
    @@ ("soup" :> [calories |-> 5000, protein |-> 300, carbs |-> 800, fats |-> 100, serving_size |-> 250, unit |-> "ml"])
    @@ ("chicken soup" :> [calories |-> 7500, protein |-> 800, carbs |-> 600, fats |-> 200, serving_size |-> 250, unit |-> "ml"])
    @@ ("chips" :> [calories |-> 53600, protein |-> 700, carbs |-> 5300, fats |-> 3500, serving_size |-> 30, unit |-> "g"])
    @@ ("popcorn" :> [calories |-> 38700, protein |-> 1300, carbs |-> 7800, fats |-> 500, serving_size |-> 30, unit |-> "g"])
    @@ ("nuts" :> [calories |-> 60700, protein |-> 2000, carbs |-> 2100, fats |-> 5400, serving_size |-> 30, unit |-> "g"])
    @@ ("almonds" :> [calories |-> 57900, protein |-> 2100, carbs |-> 2200, fats |-> 5000, serving_size |-> 30, unit |-> "g"])
    @@ ("peanuts" :> [calories |-> 56700, protein |-> 2600, carbs |-> 1600, fats |-> 4900, serving_size |-> 30, unit |-> "g"])
    @@ ("chocolate" :> [calories |-> 54600, protein |-> 500, carbs |-> 6000, fats |-> 3100, serving_size |-> 40, unit |-> "g"])
    @@ ("dark chocolate" :> [calories |-> 59800, protein |-> 500, carbs |-> 4600, fats |-> 4300, serving_size |-> 40, unit |-> "g"])
    @@ ("milk chocolate" :> [calories |-> 54000, protein |-> 700, carbs |-> 6000, fats |-> 3000, serving_size |-> 40, unit |-> "g"])
    @@ ("chocolate chip" :> [calories |-> 50000, protein |-> 400, carbs |-> 6000, fats |-> 2800, serving_size |-> 30, unit |-> "g"])
    @@ ("chocolate chips" :> [calories |-> 50000, protein |-> 400, carbs |-> 6000, fats |-> 2800, serving_size |-> 30, unit |-> "g"])
    @@ ("cookies" :> [calories |-> 48800, protein |-> 600, carbs |-> 6500, fats |-> 2300, serving_size |-> 30, unit |-> "g"])
    @@ ("cake" :> [calories |-> 37100, protein |-> 500, carbs |-> 5200, fats |-> 1600, serving_size |-> 100, unit |-> "g"])
    @@ ("donut" :> [calories |-> 45200, protein |-> 500, carbs |-> 5100, fats |-> 2500, serving_size |-> 60, unit |-> "g"])
    @@ ("muffin" :> [calories |-> 34000, protein |-> 500, carbs |-> 5000, fats |-> 1400, serving_size |-> 80, unit |-> "g"])
    @@ ("croissant" :> [calories |-> 40600, protein |-> 800, carbs |-> 4500, fats |-> 2100, serving_size |-> 60, unit |-> "g"])
    @@ ("granola bar" :> [calories |-> 47100, protein |-> 1000, carbs |-> 6400, fats |-> 2000, serving_size |-> 30, unit |-> "g"])
    @@ ("protein bar" :> [calories |-> 35000, protein |-> 2000, carbs |-> 4000, fats |-> 1200, serving_size |-> 60, unit |-> "g"])
    @@ ("coffee" :> [calories |-> 200, protein |-> 30, carbs |-> 0, fats |-> 0, serving_size |-> 250, unit |-> "ml"])
    @@ ("latte" :> [calories |-> 13500, protein |-> 700, carbs |-> 1300, fats |-> 600, serving_size |-> 350, unit |-> "ml"])
    @@ ("cappuccino" :> [calories |-> 8000, protein |-> 400, carbs |-> 800, fats |-> 400, serving_size |-> 200, unit |-> "ml"])
    @@ ("tea" :> [calories |-> 100, protein |-> 0, carbs |-> 30, fats |-> 0, serving_size |-> 250, unit |-> "ml"])
    @@ ("orange juice" :> [calories |-> 4500, protein |-> 70, carbs |-> 1000, fats |-> 20, serving_size |-> 250, unit |-> "ml"])
    @@ ("apple juice" :> [calories |-> 4600, protein |-> 10, carbs |-> 1100, fats |-> 10, serving_size |-> 250, unit |-> "ml"])
    @@ ("fruit juice" :> [calories |-> 4800, protein |-> 50, carbs |-> 1100, fats |-> 20, serving_size |-> 250, unit |-> "ml"])
    @@ ("juice" :> [calories |-> 4800, protein |-> 50, carbs |-> 1100, fats |-> 20, serving_size |-> 250, unit |-> "ml"])
    @@ ("smoothie" :> [calories |-> 9000, protein |-> 200, carbs |-> 2000, fats |-> 50, serving_size |-> 350, unit |-> "ml"])
    @@ ("protein shake" :> [calories |-> 15000, protein |-> 2500, carbs |-> 1000, fats |-> 200, serving_size |-> 350, unit |-> "ml"])
    @@ ("soda" :> [calories |-> 4100, protein |-> 0, carbs |-> 1000, fats |-> 0, serving_size |-> 350, unit |-> "ml"])
    @@ ("cola" :> [calories |-> 4100, protein |-> 0, carbs |-> 1000, fats |-> 0, serving_size |-> 350, unit |-> "ml"])
    @@ ("beer" :> [calories |-> 4300, protein |-> 50, carbs |-> 360, fats |-> 0, serving_size |-> 350, unit |-> "ml"])
    @@ ("wine" :> [calories |-> 8300, protein |-> 10, carbs |-> 270, fats |-> 0, serving_size |-> 150, unit |-> "ml"])
    @@ ("water" :> [calories |-> 0, protein |-> 0, carbs |-> 0, fats |-> 0, serving_size |-> 250, unit |-> "ml"])
    @@ ("couscous" :> [calories |-> 11200, protein |-> 380, carbs |-> 2300, fats |-> 30, serving_size |-> 250, unit |-> "g"])
    @@ ("bulgur" :> [calories |-> 8300, protein |-> 310, carbs |-> 1900, fats |-> 30, serving_size |-> 150, unit |-> "g"])
    @@ ("falafel" :> [calories |-> 33300, protein |-> 1300, carbs |-> 3000, fats |-> 1700, serving_size |-> 100, unit |-> "g"])
    @@ ("hummus" :> [calories |-> 16000, protein |-> 800, carbs |-> 1400, fats |-> 900, serving_size |-> 100, unit |-> "g"])
    @@ ("chickpeas" :> [calories |-> 11900, protein |-> 890, carbs |-> 2000, fats |-> 150, serving_size |-> 100, unit |-> "g"])
    @@ ("lentil soup" :> [calories |-> 10600, protein |-> 700, carbs |-> 1600, fats |-> 100, serving_size |-> 250, unit |-> "ml"])
    @@ ("dates" :> [calories |-> 28200, protein |-> 270, carbs |-> 7500, fats |-> 20, serving_size |-> 100, unit |-> "g"])
    @@ ("figs" :> [calories |-> 7400, protein |-> 75, carbs |-> 1900, fats |-> 30, serving_size |-> 50, unit |-> "g"])
    @@ ("couscous tunisien" :> [calories |-> 18000, protein |-> 800, carbs |-> 2800, fats |-> 400, serving_size |-> 350, unit |-> "g"])
    @@ ("couscous with meat" :> [calories |-> 19500, protein |-> 1200, carbs |-> 2500, fats |-> 600, serving_size |-> 350, unit |-> "g"])
    @@ ("couscous with vegetables" :> [calories |-> 14500, protein |-> 500, carbs |-> 2600, fats |-> 200, serving_size |-> 300, unit |-> "g"])
    @@ ("couscous au poisson" :> [calories |-> 16500, protein |-> 1400, carbs |-> 2200, fats |-> 300, serving_size |-> 350, unit |-> "g"])
    @@ ("mloukhia" :> [calories |-> 8500, protein |-> 800, carbs |-> 600, fats |-> 400, serving_size |-> 250, unit |-> "g"])
    @@ ("mouloukhia" :> [calories |-> 8500, protein |-> 800, carbs |-> 600, fats |-> 400, serving_size |-> 250, unit |-> "g"])
    @@ ("mloukhiya" :> [calories |-> 8500, protein |-> 800, carbs |-> 600, fats |-> 400, serving_size |-> 250, unit |-> "g"])
    @@ ("marka" :> [calories |-> 12000, protein |-> 1000, carbs |-> 800, fats |-> 600, serving_size |-> 250, unit |-> "g"])
    @@ ("marqa" :> [calories |-> 12000, protein |-> 1000, carbs |-> 800, fats |-> 600, serving_size |-> 250, unit |-> "g"])
    @@ ("tajine tunisien" :> [calories |-> 18500, protein |-> 1200, carbs |-> 1500, fats |-> 900, serving_size |-> 200, unit |-> "g"])
    @@ ("ojja" :> [calories |-> 14500, protein |-> 1000, carbs |-> 800, fats |-> 900, serving_size |-> 200, unit |-> "g"])
    @@ ("chakchouka" :> [calories |-> 14000, protein |-> 900, carbs |-> 1000, fats |-> 800, serving_size |-> 200, unit |-> "g"])
    @@ ("shakshuka" :> [calories |-> 14000, protein |-> 900, carbs |-> 1000, fats |-> 800, serving_size |-> 200, unit |-> "g"])
    @@ ("brik" :> [calories |-> 28000, protein |-> 1200, carbs |-> 2200, fats |-> 1600, serving_size |-> 120, unit |-> "g"])
    @@ ("brik a l'oeuf" :> [calories |-> 29500, protein |-> 1400, carbs |-> 2200, fats |-> 1800, serving_size |-> 130, unit |-> "g"])
    @@ ("lablabi" :> [calories |-> 14500, protein |-> 900, carbs |-> 2000, fats |-> 400, serving_size |-> 300, unit |-> "g"])
    @@ ("kafteji" :> [calories |-> 16500, protein |-> 600, carbs |-> 1200, fats |-> 1100, serving_size |-> 200, unit |-> "g"])
    @@ ("mechouia" :> [calories |-> 8500, protein |-> 200, carbs |-> 800, fats |-> 500, serving_size |-> 150, unit |-> "g"])
    @@ ("slata mechouia" :> [calories |-> 8500, protein |-> 200, carbs |-> 800, fats |-> 500, serving_size |-> 150, unit |-> "g"])
    @@ ("harissa" :> [calories |-> 4500, protein |-> 200, carbs |-> 800, fats |-> 100, serving_size |-> 20, unit |-> "g"])
    @@ ("tabouna" :> [calories |-> 26500, protein |-> 800, carbs |-> 5200, fats |-> 200, serving_size |-> 100, unit |-> "g"])
    @@ ("khobz" :> [calories |-> 26500, protein |-> 900, carbs |-> 4900, fats |-> 300, serving_size |-> 100, unit |-> "g"])
    @@ ("mlawi" :> [calories |-> 32000, protein |-> 700, carbs |-> 4200, fats |-> 1400, serving_size |-> 100, unit |-> "g"])
    @@ ("fricassee" :> [calories |-> 35000, protein |-> 1000, carbs |-> 3500, fats |-> 1800, serving_size |-> 150, unit |-> "g"])
    @@ ("bambalouni" :> [calories |-> 38000, protein |-> 500, carbs |-> 4500, fats |-> 2000, serving_size |-> 80, unit |-> "g"])
    @@ ("makroud" :> [calories |-> 42000, protein |-> 600, carbs |-> 5500, fats |-> 2000, serving_size |-> 100, unit |-> "g"])
    @@ ("baklawa" :> [calories |-> 46500, protein |-> 800, carbs |-> 5200, fats |-> 2600, serving_size |-> 100, unit |-> "g"])
    @@ ("chorba" :> [calories |-> 7500, protein |-> 500, carbs |-> 1000, fats |-> 200, serving_size |-> 250, unit |-> "ml"])
    @@ ("chorba frik" :> [calories |-> 9000, protein |-> 700, carbs |-> 1200, fats |-> 200, serving_size |-> 250, unit |-> "ml"])
    @@ ("hsou" :> [calories |-> 9500, protein |-> 600, carbs |-> 1400, fats |-> 200, serving_size |-> 250, unit |-> "ml"])
    @@ ("salade tunisienne" :> [calories |-> 6500, protein |-> 200, carbs |-> 800, fats |-> 300, serving_size |-> 200, unit |-> "g"])
    @@ ("omek houria" :> [calories |-> 11000, protein |-> 200, carbs |-> 1200, fats |-> 600, serving_size |-> 150, unit |-> "g"])
    @@ ("blankit" :> [calories |-> 9500, protein |-> 300, carbs |-> 1000, fats |-> 500, serving_size |-> 150, unit |-> "g"])
    @@ ("merguez" :> [calories |-> 28000, protein |-> 1400, carbs |-> 200, fats |-> 2400, serving_size |-> 100, unit |-> "g"])
    @@ ("kefta" :> [calories |-> 24500, protein |-> 1800, carbs |-> 300, fats |-> 1800, serving_size |-> 120, unit |-> "g"])
    @@ ("kebab" :> [calories |-> 23000, protein |-> 2000, carbs |-> 200, fats |-> 1600, serving_size |-> 150, unit |-> "g"])
    @@ ("lamb" :> [calories |-> 29400, protein |-> 2500, carbs |-> 0, fats |-> 2100, serving_size |-> 150, unit |-> "g"])
    @@ ("agneau" :> [calories |-> 29400, protein |-> 2500, carbs |-> 0, fats |-> 2100, serving_size |-> 150, unit |-> "g"])
    @@ ("poulet roti" :> [calories |-> 19000, protein |-> 2900, carbs |-> 0, fats |-> 800, serving_size |-> 150, unit |-> "g"])
    @@ ("pois chiches" :> [calories |-> 11900, protein |-> 890, carbs |-> 2000, fats |-> 150, serving_size |-> 100, unit |-> "g"])
    @@ ("haricots" :> [calories |-> 12700, protein |-> 870, carbs |-> 2300, fats |-> 50, serving_size |-> 100, unit |-> "g"])
    @@ ("courgette" :> [calories |-> 1700, protein |-> 120, carbs |-> 300, fats |-> 30, serving_size |-> 100, unit |-> "g"])
    @@ ("zucchini" :> [calories |-> 1700, protein |-> 120, carbs |-> 300, fats |-> 30, serving_size |-> 100, unit |-> "g"])
    @@ ("aubergine" :> [calories |-> 2500, protein |-> 100, carbs |-> 600, fats |-> 20, serving_size |-> 100, unit |-> "g"])
    @@ ("eggplant" :> [calories |-> 2500, protein |-> 100, carbs |-> 600, fats |-> 20, serving_size |-> 100, unit |-> "g"])
    @@ ("poivron" :> [calories |-> 3100, protein |-> 100, carbs |-> 600, fats |-> 30, serving_size |-> 100, unit |-> "g"])
    @@ ("red bell pepper" :> [calories |-> 3100, protein |-> 100, carbs |-> 600, fats |-> 30, serving_size |-> 100, unit |-> "g"])
    @@ ("pumpkin" :> [calories |-> 2600, protein |-> 100, carbs |-> 700, fats |-> 10, serving_size |-> 100, unit |-> "g"])
    @@ ("turnip" :> [calories |-> 2800, protein |-> 90, carbs |-> 600, fats |-> 10, serving_size |-> 100, unit |-> "g"])
    @@ ("navet" :> [calories |-> 2800, protein |-> 90, carbs |-> 600, fats |-> 10, serving_size |-> 100, unit |-> "g"])
    @@ ("the a la menthe" :> [calories |-> 2500, protein |-> 0, carbs |-> 600, fats |-> 0, serving_size |-> 200, unit |-> "ml"])
    @@ ("mint tea" :> [calories |-> 2500, protein |-> 0, carbs |-> 600, fats |-> 0, serving_size |-> 200, unit |-> "ml"])
    @@ ("citronnade" :> [calories |-> 4500, protein |-> 0, carbs |-> 1100, fats |-> 0, serving_size |-> 250, unit |-> "ml"])
    @@ ("lait de poule" :> [calories |-> 15000, protein |-> 600, carbs |-> 1800, fats |-> 600, serving_size |-> 250, unit |-> "ml"])
    @@ ("penne" :> [calories |-> 13100, protein |-> 500, carbs |-> 2500, fats |-> 110, serving_size |-> 200, unit |-> "g"])
    @@ ("lasagna noodles" :> [calories |-> 13100, protein |-> 500, carbs |-> 2500, fats |-> 110, serving_size |-> 200, unit |-> "g"])
    @@ ("fettuccine" :> [calories |-> 13100, protein |-> 500, carbs |-> 2500, fats |-> 110, serving_size |-> 200, unit |-> "g"])
    @@ ("ravioli" :> [calories |-> 14600, protein |-> 650, carbs |-> 2300, fats |-> 350, serving_size |-> 150, unit |-> "g"])
    @@ ("gnocchi" :> [calories |-> 9600, protein |-> 350, carbs |-> 1900, fats |-> 20, serving_size |-> 150, unit |-> "g"])
    @@ ("tortilla" :> [calories |-> 15500, protein |-> 400, carbs |-> 3000, fats |-> 200, serving_size |-> 50, unit |-> "g"])
    @@ ("naan bread" :> [calories |-> 26200, protein |-> 800, carbs |-> 4200, fats |-> 500, serving_size |-> 90, unit |-> "g"])
    @@ ("roti" :> [calories |-> 15000, protein |-> 400, carbs |-> 2800, fats |-> 150, serving_size |-> 80, unit |-> "g"])
    @@ ("barley" :> [calories |-> 12300, protein |-> 230, carbs |-> 2800, fats |-> 50, serving_size |-> 150, unit |-> "g"])
    @@ ("millet" :> [calories |-> 11900, protein |-> 350, carbs |-> 2600, fats |-> 130, serving_size |-> 150, unit |-> "g"])
    @@ ("ramen noodles" :> [calories |-> 13800, protein |-> 300, carbs |-> 3000, fats |-> 50, serving_size |-> 100, unit |-> "g"])
    @@ ("udon noodles" :> [calories |-> 11600, protein |-> 420, carbs |-> 2400, fats |-> 20, serving_size |-> 150, unit |-> "g"])
    @@ ("edamame" :> [calories |-> 9500, protein |-> 1130, carbs |-> 700, fats |-> 500, serving_size |-> 100, unit |-> "g"])
    @@ ("sesame seeds" :> [calories |-> 57300, protein |-> 1800, carbs |-> 2600, fats |-> 5000, serving_size |-> 20, unit |-> "g"])
    @@ ("tahini" :> [calories |-> 59500, protein |-> 1700, carbs |-> 2100, fats |-> 5400, serving_size |-> 30, unit |-> "g"])
    @@ ("miso paste" :> [calories |-> 19900, protein |-> 1300, carbs |-> 2700, fats |-> 600, serving_size |-> 50, unit |-> "g"])
    @@ ("seaweed" :> [calories |-> 4500, protein |-> 300, carbs |-> 900, fats |-> 60, serving_size |-> 50, unit |-> "g"])

(***************************************************************************)
(* _estimate_portion                                                       *)
(***************************************************************************)
EstimatePortion(food_name) ==
    LET food_key == Str(Strip(Lower(food_name)))
    IN  IF food_key \in DOMAIN FOOD_DATABASE
        THEN [amount |-> FOOD_DATABASE[food_key].serving_size,
              unit |-> FOOD_DATABASE[food_key].unit]
        ELSE [amount |-> 100, unit |-> "g"]

(***************************************************************************)
(* _mock_food_recognition: colour analysis of the 50 x 50 resized image.   *)
(* pixels is a sequence of runs [rgb |-> <<r, g, b>>, n |-> run length].   *)
(***************************************************************************)
Buckets == {"white", "cream", "beige", "green", "orange", "red", "yellow", "brown"}

\* the chain with "if" for "elif" at the orange test: a second chain starts there
PixelBucketsTwoChains(r, g, b) ==
    (IF r > 200 /\ g > 200 /\ b > 200 THEN {"white"}
     ELSE IF r > 170 /\ g > 150 /\ b >= 95 /\ r > b
          THEN (IF r - b > 50 THEN {"beige"} ELSE {"cream"})
     ELSE IF g >= r /\ g >= b /\ g > 60 THEN {"green"}
     ELSE {})
    \cup
    (IF r > 180 /\ g > 80 /\ g < 160 /\ b < 100 THEN {"orange"}
     ELSE IF r > 150 /\ r > g + 30 /\ r > b + 30 THEN {"red"}
     ELSE IF r > 180 /\ g > 150 /\ b <= 100 THEN {"yellow"}
     ELSE IF 60 < r /\ r < 150 /\ 40 < g /\ g < 120 /\ b < 80 THEN {"brown"}
     ELSE {})

\* the counters the if/elif chain increments for one pixel
PixelBuckets(r, g, b) ==
    IF r > 200 /\ g > 200 /\ b > 200 THEN {"white"}
    ELSE IF r > 170 /\ g > 150 /\ b >= 95 /\ r > b
         THEN (IF r - b > 50 THEN {"beige"} ELSE {"cream"})
    ELSE IF g >= r /\ g >= b /\ g > 60 THEN {"green"}
    ELSE IF r > 180 /\ g > 80 /\ g < 160 /\ b < 100 THEN {"orange"}
    ELSE IF r > 150 /\ r > g + 30 /\ r > b + 30 THEN {"red"}
    ELSE IF r > 180 /\ g > 150 /\ b <= 100 THEN {"yellow"}
    ELSE IF 60 < r /\ r < 150 /\ 40 < g /\ g < 120 /\ b < 80 THEN {"brown"}
    ELSE {}

RECURSIVE Sum(_)
Sum(xs) == IF xs = <<>> THEN 0 ELSE Head(xs) + Sum(Tail(xs))

\* num_pixels, the eight bucket counts and total_r + total_g + total_b
ColorAnalysis(pixels) ==
    [num_pixels |-> Sum([i \in 1..Len(pixels) |-> pixels[i].n]),
     total_rgb  |-> Sum([i \in 1..Len(pixels) |->
                        pixels[i].n * (pixels[i].rgb[1] + pixels[i].rgb[2] + pixels[i].rgb[3])]),
     count      |-> [k \in Buckets |->
                        Sum([i \in 1..Len(pixels) |->
                            IF k \in PixelBuckets(pixels[i].rgb[1], pixels[i].rgb[2],
                                                  pixels[i].rgb[3])
                            THEN pixels[i].n ELSE 0])]]

\* pct_<bucket> > t, with pct = count / num_pixels * 100
PctGT(s, bucket, t) == s.count[bucket] * 100 > t * s.num_pixels
\* brightness = (avg_r + avg_g + avg_b) / 3 compared with t
BrightnessLT(s, t) == s.total_rgb < t * 3 * s.num_pixels
BrightnessGT(s, t) == s.total_rgb > t * 3 * s.num_pixels

Food(name, confidence) == [name |-> name, confidence |-> confidence]

\* green dominant: mloukhia or salad
GreenFoods(s) ==
    IF PctGT(s, "brown", 12) \/ BrightnessLT(s, 120)
    THEN <<Food(Name.mloukhia, 92), Food(Name.rice, 84)>>
    ELSE <<Food(Name.mixed_salad, 91), Food(Name.grilled_chicken, 82)>>

\* GrainFoods with a couscous test that does not compare beige with cream
GrainFoodsBeigeFirst(s) ==
    LET grain ==
            IF PctGT(s, "white", 25) THEN Food(Name.white_rice, 95)
            ELSE IF PctGT(s, "beige", 22) THEN Food(Name.couscous, 92)
            ELSE IF PctGT(s, "cream", 22) /\ PctGT(s, "yellow", 8)
                 THEN Food(Name.pasta, 91)
            ELSE IF PctGT(s, "cream", 22) THEN Food(Name.white_rice, 88)
            ELSE Food(Name.pasta, 85)
        protein ==
            IF PctGT(s, "brown", 15) THEN <<Food(Name.lamb, 85)>>
            ELSE IF PctGT(s, "red", 15) THEN <<Food(Name.merguez, 83)>>
            ELSE <<>>
        vegetables ==
            IF PctGT(s, "green", 10) THEN <<Food(Name.mixed_vegetables, 80)>> ELSE <<>>
    IN  <<grain>> \o protein \o vegetables

\* beige/cream dominant: one grain, then protein, then vegetables
GrainFoods(s) ==
    LET grain ==
            IF PctGT(s, "white", 25) THEN Food(Name.white_rice, 95)
            ELSE IF PctGT(s, "beige", 22) /\ s.count["beige"] >= s.count["cream"]
                 THEN Food(Name.couscous, 92)
            ELSE IF PctGT(s, "cream", 22) /\ PctGT(s, "yellow", 8)
                 THEN Food(Name.pasta, 91)
            ELSE IF PctGT(s, "cream", 22) THEN Food(Name.white_rice, 88)
            ELSE Food(Name.pasta, 85)
        protein ==
            IF PctGT(s, "brown", 15) THEN <<Food(Name.lamb, 85)>>
            ELSE IF PctGT(s, "red", 15) THEN <<Food(Name.merguez, 83)>>
            ELSE <<>>
        vegetables ==
            IF PctGT(s, "green", 10) THEN <<Food(Name.mixed_vegetables, 80)>> ELSE <<>>
    IN  <<grain>> \o protein \o vegetables

WhiteFoods(s) ==
    <<Food(Name.white_rice, 93)>>
    \o (IF PctGT(s, "brown", 10) THEN <<Food(Name.grilled_chicken, 88)>> ELSE <<>>)

OrangeFoods(s) ==
    IF PctGT(s, "beige", 10) \/ PctGT(s, "cream", 10)
    THEN <<Food(Name.couscous, 92)>>
         \o (IF PctGT(s, "brown", 10) \/ PctGT(s, "red", 10)
             THEN <<Food(Name.lamb, 85)>> ELSE <<>>)
         \o (IF PctGT(s, "green", 5) THEN <<Food(Name.mixed_vegetables, 80)>>
             ELSE IF PctGT(s, "orange", 15) THEN <<Food(Name.carrots, 78)>>
             ELSE <<>>)
    ELSE <<Food(Name.sweet_potato, 91), Food(Name.carrots, 87)>>

RedFoods(s) ==
    IF BrightnessLT(s, 100)
    THEN <<Food(Name.beef_steak, 91)>>
         \o (IF PctGT(s, "beige", 10) \/ PctGT(s, "cream", 10)
             THEN <<Food(Name.rice, 82)>> ELSE <<>>)
         \o (IF PctGT(s, "green", 8) THEN <<Food(Name.mixed_salad, 78)>> ELSE <<>>)
    ELSE IF PctGT(s, "beige", 8) \/ PctGT(s, "cream", 8)
         THEN <<Food(Name.pasta, 90), Food(Name.tomato_sauce, 82)>>
         ELSE <<Food(Name.tomato, 90), Food(Name.red_bell_pepper, 82)>>

YellowFoods(s) ==
    <<Food(Name.scrambled_eggs, 92)>>
    \o (IF PctGT(s, "red", 10) THEN <<Food(Name.tomato, 80)>> ELSE <<>>)

BrownFoods(s) ==
    IF BrightnessLT(s, 80)
    THEN <<Food(Name.mloukhia, 88), Food(Name.rice, 82)>>
    ELSE <<Food(Name.grilled_chicken, 91)>>
         \o (IF PctGT(s, "beige", 8) \/ PctGT(s, "cream", 8)
             THEN <<Food(Name.rice, 83)>> ELSE <<>>)

\* the chain with the grain test moved in front of the green test
SelectFoodsGrainFirst(s) ==
    IF PctGT(s, "beige", 25) \/ PctGT(s, "cream", 30) THEN GrainFoods(s)
    ELSE IF PctGT(s, "green", 20) THEN GreenFoods(s)
    ELSE IF PctGT(s, "white", 30) THEN WhiteFoods(s)
    ELSE IF PctGT(s, "orange", 20) THEN OrangeFoods(s)
    ELSE IF PctGT(s, "red", 20) THEN RedFoods(s)
    ELSE IF PctGT(s, "yellow", 20) THEN YellowFoods(s)
    ELSE IF PctGT(s, "brown", 25) THEN BrownFoods(s)
    ELSE <<>>

\* the if/elif chain over the colour percentages: the first test met decides
SelectFoods(s) ==
    IF PctGT(s, "green", 20) THEN GreenFoods(s)
    ELSE IF PctGT(s, "beige", 25) \/ PctGT(s, "cream", 30) THEN GrainFoods(s)
    ELSE IF PctGT(s, "white", 30) THEN WhiteFoods(s)
    ELSE IF PctGT(s, "orange", 20) THEN OrangeFoods(s)
    ELSE IF PctGT(s, "red", 20) THEN RedFoods(s)
    ELSE IF PctGT(s, "yellow", 20) THEN YellowFoods(s)
    ELSE IF PctGT(s, "brown", 25) THEN BrownFoods(s)
    ELSE <<>>

\* the default lost: an empty list stays empty
DefaultFoodsMissing(s, foods) == foods

\* "if not foods": the default by brightness
DefaultFoods(s, foods) ==
    IF foods # <<>> THEN foods
    ELSE IF BrightnessGT(s, 180) THEN <<Food(Name.rice, 88), Food(Name.chicken, 84)>>
    ELSE IF BrightnessGT(s, 120) THEN <<Food(Name.pasta, 87), Food(Name.grilled_chicken, 83)>>
    ELSE <<Food(Name.beef_steak, 86), Food(Name.mixed_vegetables, 80)>>

grain_types ==
    {Name.rice, Name.white_rice, Name.brown_rice, Name.pasta, Name.couscous,
     Name.bread, Name.potato, Name.sweet_potato, Name.noodles}

is_grain(food) ==
    LET food_name == Lower(food.name)
    IN  \E grain \in grain_types : Contains(food_name, grain)

\* the filtering loop: found says whether found_grain is set
RECURSIVE FilterLoop(_, _)
FilterLoop(foods, found) ==
    IF foods = <<>> THEN <<>>
    ELSE IF is_grain(Head(foods))
         THEN IF ~found THEN <<Head(foods)>> \o FilterLoop(Tail(foods), TRUE)
              ELSE FilterLoop(Tail(foods), found)
         ELSE <<Head(foods)>> \o FilterLoop(Tail(foods), found)

\* the loop with its else branch lost: every food is appended, the first grain twice
RECURSIVE FilterLoopNoElse(_, _)
FilterLoopNoElse(foods, found) ==
    IF foods = <<>> THEN <<>>
    ELSE (IF is_grain(Head(foods)) /\ ~found THEN <<Head(foods)>> ELSE <<>>)
         \o <<Head(foods)>>
         \o FilterLoopNoElse(Tail(foods), found \/ is_grain(Head(foods)))

FilterGrainsNoElse(foods) == FilterLoopNoElse(foods, FALSE)

FilterGrains(foods) == FilterLoop(foods, FALSE)

\* foods[:k]
Limit(foods, k) == SubSeq(foods, 1, IF Len(foods) < k THEN Len(foods) ELSE k)

\* the drink of a tall image, by colour
Drink(s) ==
    IF PctGT(s, "red", 20) /\ PctGT(s, "orange", 10) THEN <<Food(Name.fruit_juice, 89)>>
    ELSE IF PctGT(s, "orange", 25) /\ BrightnessGT(s, 150)
         THEN <<Food(Name.orange_juice, 90)>>
    ELSE IF PctGT(s, "yellow", 20) THEN <<Food(Name.juice, 87)>>
    ELSE IF PctGT(s, "green", 15) THEN <<Food(Name.smoothie, 88)>>
    ELSE IF BrightnessGT(s, 150) THEN <<Food(Name.smoothie, 85)>>
    ELSE <<Food(Name.soup, 82)>>

\* the drink appended to the foods instead of replacing them
DrinkDetectionAppend(s, width, height, foods) ==
    IF 10 * width < 7 * height THEN foods \o Drink(s) ELSE foods

\* aspect_ratio = width / height < 0.7 replaces the foods by one drink
DrinkDetection(s, width, height, foods) ==
    IF 10 * width < 7 * height THEN Drink(s) ELSE foods

AddPortions(foods) ==
    [i \in 1..Len(foods) |->
        [name |-> foods[i].name, confidence |-> foods[i].confidence,
         estimated_portion |-> EstimatePortion(foods[i].name)]]

\* the result for an image whose pixel statistics are s; "analysis" holds the
\* exact statistics, which the code reports rounded to one decimal
ClassifyStatistics(s, width, height) ==
    LET foods    == DefaultFoods(s, SelectFoods(s))
        filtered == Limit(FilterGrains(foods), 3)
        final    == AddPortions(DrinkDetection(s, width, height, filtered))
    IN  [success |-> TRUE, provider |-> "image_analysis",
         foods |-> Limit(final, 4), analysis |-> s]

\* _fallback_food_recognition; hash_num is the first eight hex digits of the MD5
\* of the file's bytes, or of its path when the file cannot be read
meal_scenarios ==
    <<<<Food(Name.grilled_chicken, 94), Food(Name.brown_rice, 89), Food(Name.broccoli, 86)>>,
      <<Food(Name.scrambled_eggs, 93), Food(Name.toast, 88), Food(Name.bacon, 82)>>,
      <<Food(Name.salmon, 95), Food(Name.sweet_potato, 87), Food(Name.asparagus, 84)>>>>

FallbackFoodRecognition(img) ==
    LET scenario_index == img.hash_num % Len(meal_scenarios)
        selected_foods == meal_scenarios[scenario_index + 1]
    IN  [success |-> TRUE, provider |-> "fallback", foods |-> AddPortions(selected_foods)]

\* _mock_food_recognition(image_path): an image is either its pixels, or the
\* reason why Image.open raises ("missing", "corrupt"); the except branch
\* answers the second with the fallback
MockFoodRecognition(img) ==
    IF "pixels" \in DOMAIN img
    THEN ClassifyStatistics(ColorAnalysis(img.pixels), img.width, img.height)
    ELSE FallbackFoodRecognition(img)

\* meal_service_v2._mock_food_recognition: random.choice over the four mock
\* meals, whatever the image; the portions are the serving sizes that
\* meal_service_v2.FOOD_DATABASE holds for these names
mock_meals ==
    [breakfast |-> <<[name |-> Name.eggs, confidence |-> 94,
                      estimated_portion |-> [amount |-> 100, unit |-> "g", type |-> "database"]],
                     [name |-> Name.toast, confidence |-> 89,
                      estimated_portion |-> [amount |-> 50, unit |-> "g", type |-> "database"]],
                     [name |-> Name.orange_juice, confidence |-> 85,
                      estimated_portion |-> [amount |-> 250, unit |-> "ml", type |-> "database"]]>>,
     lunch |-> <<[name |-> Name.chicken_breast, confidence |-> 92,
                  estimated_portion |-> [amount |-> 150, unit |-> "g", type |-> "database"]],
                 [name |-> Name.rice, confidence |-> 88,
                  estimated_portion |-> [amount |-> 200, unit |-> "g", type |-> "database"]],
                 [name |-> Name.broccoli, confidence |-> 85,
                  estimated_portion |-> [amount |-> 100, unit |-> "g", type |-> "database"]],
                 [name |-> Name.salad, confidence |-> 72,
                  estimated_portion |-> [amount |-> 150, unit |-> "g", type |-> "database"]]>>,
     dinner |-> <<[name |-> Name.salmon, confidence |-> 91,
                   estimated_portion |-> [amount |-> 150, unit |-> "g", type |-> "database"]],
                  [name |-> Name.sweet_potato, confidence |-> 87,
                   estimated_portion |-> [amount |-> 150, unit |-> "g", type |-> "database"]],
                  [name |-> Name.asparagus, confidence |-> 80,
                   estimated_portion |-> [amount |-> 100, unit |-> "g", type |-> "database"]]>>,
     snack |-> <<[name |-> Name.apple, confidence |-> 93,
                  estimated_portion |-> [amount |-> 180, unit |-> "g", type |-> "database"]],
                 [name |-> Name.almonds, confidence |-> 76,
                  estimated_portion |-> [amount |-> 30, unit |-> "g", type |-> "database"]]>>]

MockFoodRecognitionV2(img) ==
    {[success |-> TRUE, provider |-> "mock", foods |-> mock_meals[meal_type],
      meal_type |-> meal_type, count |-> Len(mock_meals[meal_type])] :
        meal_type \in DOMAIN mock_meals}

(***************************************************************************)
(* get_nutrition_for_food.  An optional argument is None or Some(x).  A    *)
(* call returns a set of possible outcomes: a nutrition record (with       *)
(* raised |-> FALSE) or an exception reaching the caller (raised |-> TRUE).*)
(***************************************************************************)

\* round(x, 1) in tenths, for x = n / 10000.  An exact tie (x.x5) is rounded
\* to either side: the double nearest the float product decides, and it may
\* lie on either side of the tie.
Round1(n) ==
    LET floor == n \div 1000
        rest  == n % 1000
    IN  IF rest < 500 THEN {floor}
        ELSE IF rest > 500 THEN {floor + 1}
        ELSE {floor, floor + 1}

\* the record whose values are per100 (in hundredths per 100 units) times
\* quantity / 100, each rounded to one decimal
ScaledRecords(food_name, quantity, unit, per100, source) ==
    {[raised |-> FALSE, food_name |-> food_name, quantity |-> quantity, unit |-> unit,
      calories |-> cal, protein_g |-> pro, carbs_g |-> carb, fats_g |-> fat,
      source |-> source] :
        cal \in Round1(per100.calories * quantity),
        pro \in Round1(per100.protein * quantity),
        carb \in Round1(per100.carbs * quantity),
        fat \in Round1(per100.fats * quantity)}

\* quantity or default, unit or default
QuantityOr(quantity, default) ==
    IF quantity = None \/ quantity = Some(0) THEN default ELSE quantity[1]
UnitOr(unit, default) == IF unit = None \/ unit = Some("") THEN default ELSE unit[1]

\* _estimate_unknown_food
EstimateUnknownFood(food_name, quantity, unit) ==
    {r @@ [note |-> "Nutrition estimated - values may vary"] :
        r \in ScaledRecords(food_name, QuantityOr(quantity, 100), UnitOr(unit, "g"),
                [calories |-> 15000, protein |-> 800, carbs |-> 1500, fats |-> 600],
                "estimated")}

Raised(error) == [raised |-> TRUE, error |-> error]

\* the lookup whose successful branch does not return: it always ends in the estimate
GetNutritionFromApiNoReturn(food_name, quantity, unit, response) ==
    IF response.kind \in {"timeout", "http_error", "bad_json", "malformed"}
    THEN {Raised(response.kind)}
    ELSE EstimateUnknownFood(food_name, quantity, unit)

\* _get_nutrition_from_api; response is what the USDA API does when called:
\*   timeout     requests.get raises
\*   http_error  raise_for_status raises (4xx, 5xx)
\*   bad_json    response.json() raises
\*   malformed   a foodNutrients entry lacks nutrientName or value (KeyError)
\*   no_foods    the result has no "foods", or an empty list
\*   ok          foods[0] is read; nutrients maps the names present to values
GetNutritionFromApi(food_name, quantity, unit, response) ==
    IF response.kind \in {"timeout", "http_error", "bad_json", "malformed"}
    THEN {Raised(response.kind)}
    ELSE IF response.kind = "ok"
    THEN LET nutrient(name) ==
                 IF name \in DOMAIN response.nutrients THEN response.nutrients[name] ELSE 0
         IN  ScaledRecords(
                 IF response.description # None THEN response.description[1] ELSE food_name,
                 QuantityOr(quantity, 100), UnitOr(unit, "g"),
                 [calories |-> nutrient("Energy"), protein |-> nutrient("Protein"),
                  carbs |-> nutrient("Carbohydrate, by difference"),
                  fats |-> nutrient("Total lipid (fat)")],
                 "usda_api")
    ELSE EstimateUnknownFood(food_name, quantity, unit)

\* food_name.lower().strip() without the lower()
FoodKeyNoLower(food_name) == Str(Strip(food_name))

\* food_key = food_name.lower().strip()
FoodKey(food_name) == Str(Strip(Lower(food_name)))

\* the call with the try/except around the API lookup lost
GetNutritionForFoodNoTry(food_name, quantity, unit, api_key, response) ==
    LET food_key == FoodKey(food_name)
    IN  IF food_key \in DOMAIN FOOD_DATABASE
        THEN LET food == FOOD_DATABASE[food_key]
             IN  ScaledRecords(food_name,
                     IF quantity = None THEN food.serving_size ELSE quantity[1],
                     IF quantity = None THEN food.unit ELSE UnitOr(unit, food.unit),
                     food, "local_database")
        ELSE IF api_key # ""
        THEN GetNutritionFromApi(food_name, quantity, unit, response)
        ELSE EstimateUnknownFood(food_name, quantity, unit)

GetNutritionForFood(food_name, quantity, unit, api_key, response) ==
    LET food_key == FoodKey(food_name)
    IN  IF food_key \in DOMAIN FOOD_DATABASE
        THEN LET food == FOOD_DATABASE[food_key]
             IN  ScaledRecords(food_name,
                     IF quantity = None THEN food.serving_size ELSE quantity[1],
                     IF quantity = None THEN food.unit ELSE UnitOr(unit, food.unit),
                     food, "local_database")
        ELSE IF api_key # ""
        THEN LET tried == GetNutritionFromApi(food_name, quantity, unit, response)
             IN  {r \in tried : ~r.raised}
                 \cup (IF \E r \in tried : r.raised
                       THEN EstimateUnknownFood(food_name, quantity, unit) ELSE {})
        ELSE EstimateUnknownFood(food_name, quantity, unit)


(***************************************************************************)
(* Nutrition lookups.  A request is drawn from bounded sets: names that    *)
(* are keys of FOOD_DATABASE in several spellings and names that are not,  *)
(* quantities (missing, negative, zero, positive), units, and what the     *)
(* nutrition API answers if it is called.                                  *)
(***************************************************************************)
RequestNames ==
    {<<"c","h","i","c","k","e","n"," ","b","r","e","a","s","t">>,
     <<" "," ","C","h","i","c","k","e","n"," ","B","r","e","a","s","t"," ">>,
     <<"R","I","C","E">>,
     <<"r","i","c","e">>,
     <<"f","i","g","s">>,
     <<"w","a","t","e","r">>,
     <<"M","i","l","k">>,
     <<"t","u","n","a">>,
     <<"d","r","a","g","o","n"," ","f","r","u","i","t">>,
     <<"R","i","c","e"," ","P","u","d","d","i","n","g">>,
     <<"z","l","a","b","i","a">>}

Quantities == {None, Some(-50), Some(0), Some(33), Some(100), Some(150), Some(300)}
Units == {None, Some("g"), Some("ml")}
ApiKeys == {"", "DEMO_KEY"}

ApiResponses ==
    {[kind |-> "timeout"], [kind |-> "http_error"], [kind |-> "bad_json"],
     [kind |-> "malformed"], [kind |-> "no_foods"],
     [kind |-> "ok", description |-> Some(<<"P","i","t","a","y","a",","," ","r","a","w">>),
      nutrients |-> ("Energy" :> 6000) @@ ("Protein" :> 120)
                    @@ ("Carbohydrate, by difference" :> 1300)
                    @@ ("Total lipid (fat)" :> 0)],
     [kind |-> "ok", description |-> None, nutrients |-> ("Energy" :> 26450)]}

InitNutrition ==
    /\ pc = "ready"
    /\ image = None
    /\ recognized = None
    /\ nutrition_api_key \in ApiKeys
    /\ request \in [food_name : RequestNames, quantity : Quantities, unit : Units,
                    response : ApiResponses]
    /\ nutrition = None
    /\ MealIdle
    /\ ApiIdle

\* meal_service.get_nutrition_for_food(food_name, quantity, unit), as called by
\* create_meal, add_item_to_meal and analyze_meal
GetNutrition ==
    /\ pc = "ready"
    /\ pc' = "returned"
    /\ nutrition' \in GetNutritionForFood(request.food_name, request.quantity, request.unit,
                                          nutrition_api_key, request.response)
    /\ UNCHANGED <<image, recognized, nutrition_api_key, request, meal_vars, api_vars>>

SpecNutrition == InitNutrition /\ [][GetNutrition]_vars


(***************************************************************************)
(* analyze_meal: the per-item records and their totals.  Totals are in     *)
(* tenths like the records they sum; round(total, 1) of a sum of numbers   *)
(* with one decimal is that sum.                                           *)
(***************************************************************************)
\* item.get("food_name") or item.get("name", "")
ItemFoodName(item) ==
    IF item.food_name # None /\ item.food_name[1] # <<>> THEN item.food_name[1]
    ELSE IF item.name # None THEN item.name[1]
    ELSE <<>>

\* the state of the loop before any item
NoItems ==
    [items |-> <<>>, total_calories |-> 0, total_protein |-> 0, total_carbs |-> 0,
     total_fats |-> 0]

\* the loop that looks up the items without a name as well
RECURSIVE AnalyzeLoopNoSkip(_, _, _, _)
AnalyzeLoopNoSkip(food_list, i, api_key, acc) ==
    IF i > Len(food_list) THEN {acc}
    ELSE LET item == food_list[i]
         IN  UNION {IF n.raised THEN {n}
                    ELSE AnalyzeLoopNoSkip(food_list, i + 1, api_key,
                             [items |-> Append(acc.items, n),
                              total_calories |-> acc.total_calories + n.calories,
                              total_protein |-> acc.total_protein + n.protein_g,
                              total_carbs |-> acc.total_carbs + n.carbs_g,
                              total_fats |-> acc.total_fats + n.fats_g]) :
                    n \in GetNutritionForFood(ItemFoodName(item), item.quantity, item.unit,
                                              api_key, item.response)}

\* the for loop of analyze_meal from item i on; acc holds items_analysis and
\* the four running totals.  An exception of the lookup ends the loop.
RECURSIVE AnalyzeLoop(_, _, _, _)
AnalyzeLoop(food_list, i, api_key, acc) ==
    IF i > Len(food_list) THEN {acc}
    ELSE LET item == food_list[i]
             food_name == ItemFoodName(item)
         IN  IF food_name = <<>>
             THEN AnalyzeLoop(food_list, i + 1, api_key, acc)
             ELSE UNION {IF n.raised THEN {n}
                         ELSE AnalyzeLoop(food_list, i + 1, api_key,
                                  [items |-> Append(acc.items, n),
                                   total_calories |-> acc.total_calories + n.calories,
                                   total_protein |-> acc.total_protein + n.protein_g,
                                   total_carbs |-> acc.total_carbs + n.carbs_g,
                                   total_fats |-> acc.total_fats + n.fats_g]) :
                         n \in GetNutritionForFood(food_name, item.quantity, item.unit,
                                                   api_key, item.response)}

\* analyze_meal(food_items): the results it can return
AnalyzeMeal(food_list, api_key) ==
    {IF "raised" \in DOMAIN acc THEN acc
     ELSE [raised |-> FALSE,
           items |-> acc.items,
           totals |-> [calories |-> acc.total_calories, protein_g |-> acc.total_protein,
                       carbs_g |-> acc.total_carbs, fats_g |-> acc.total_fats],
           item_count |-> Len(acc.items)] :
     acc \in AnalyzeLoop(food_list, 1, api_key, NoItems)}

(***************************************************************************)
(* calculate_macro_percentages.  Grams come in tenths; a percentage        *)
(* rounded to d decimals is an integer number of 10^-d.                    *)
(***************************************************************************)
\* round(num / den * scale) for den > 0: the nearest integer, either one on a tie
RoundDiv(num, den) ==
    LET floor == num \div den
        rest  == num % den
    IN  IF 2 * rest < den THEN {floor}
        ELSE IF 2 * rest > den THEN {floor + 1}
        ELSE {floor, floor + 1}

\* the percentages with the fat calories left out of total_cal
MacroPercentagesNoFats(protein, carbs, fats) ==
    LET protein_cal == protein * 4
        carbs_cal == carbs * 4
        fats_cal == fats * 9
        total_cal == protein_cal + carbs_cal
    IN  IF total_cal = 0
        THEN {[protein_percentage |-> 0, carbs_percentage |-> 0, fats_percentage |-> 0]}
        ELSE {[protein_percentage |-> p, carbs_percentage |-> c, fats_percentage |-> f] :
                p \in RoundDiv(protein_cal * 10000, total_cal),
                c \in RoundDiv(carbs_cal * 10000, total_cal),
                f \in RoundDiv(fats_cal * 10000, total_cal)}

\* routes/meals.py and routes/nutrition.py: percentages in hundredths (round(x, 2))
CalculateMacroPercentages(protein, carbs, fats) ==
    LET protein_cal == protein * 4
        carbs_cal == carbs * 4
        fats_cal == fats * 9
        total_cal == protein_cal + carbs_cal + fats_cal
    IN  IF total_cal = 0
        THEN {[protein_percentage |-> 0, carbs_percentage |-> 0, fats_percentage |-> 0]}
        ELSE {[protein_percentage |-> p, carbs_percentage |-> c, fats_percentage |-> f] :
                p \in RoundDiv(protein_cal * 10000, total_cal),
                c \in RoundDiv(carbs_cal * 10000, total_cal),
                f \in RoundDiv(fats_cal * 10000, total_cal)}

\* services/nutrition_service.py: percentages in tenths (round(x, 1)); the
\* arithmetic raises nothing on numbers, so the except branch is not taken
ServiceMacroPercentages(protein_g, carbs_g, fats_g) ==
    LET protein_cal == protein_g * 4
        carbs_cal == carbs_g * 4
        fats_cal == fats_g * 9
        total_cal == protein_cal + carbs_cal + fats_cal
    IN  IF total_cal = 0
        THEN {[protein |-> 0, carbs |-> 0, fats |-> 0]}
        ELSE {[protein |-> p, carbs |-> c, fats |-> f] :
                p \in RoundDiv(protein_cal * 1000, total_cal),
                c \in RoundDiv(carbs_cal * 1000, total_cal),
                f \in RoundDiv(fats_cal * 1000, total_cal)}

(***************************************************************************)
(* HTTP API: app/routes/auth.py.  A JSON value of a request body is        *)
(* [type |-> "string", chars |-> its characters] or [type |-> "number",    *)
(* chars |-> its digits]; a body is None (no or empty JSON) or Some(data),  *)
(* and a key of data is None (missing or null) or Some(value).             *)
(* Each handler runs as one transaction.  The users table has the columns  *)
(* that auth.py reads and writes (google_id among them).                   *)
(***************************************************************************)
String(chars) == [type |-> "string", chars |-> chars]
Number(chars) == [type |-> "number", chars |-> chars]

Digits == {"0", "1", "2", "3", "4", "5", "6", "7", "8", "9"}
UpperCase == DOMAIN LowerCase
Letters == UpperCase \cup {LowerCase[c] : c \in UpperCase}

\* responses.success_response / error_response: (body, status)
success_response(data, status_code) ==
    [status |-> status_code, success |-> TRUE, data |-> data]
error_response(error_code, status_code) ==
    [status |-> status_code, success |-> FALSE, code |-> error_code]

\* validators.validate_required_fields: the first field that is missing or null
validate_required_fields(data, required) ==
    \A i \in 1..Len(required) : data[required[i]] # None

\* validators.validate_username on a JSON value: "ok", "invalid", or "raise"
\* (len() of a number is a TypeError)
validate_username(username) ==
    IF username.type # "string" THEN "raise"
    ELSE LET s == username.chars
         IN  IF s = <<>> \/ Len(s) < 3 \/ Len(s) > 20 THEN "invalid"
             ELSE IF \E i \in 1..Len(s) : s[i] \notin Letters \cup Digits \cup {"_"}
             THEN "invalid"
             ELSE "ok"

\* validators.validate_email: ^[a-zA-Z0-9._%+-]+@[a-zA-Z0-9.-]+\.[a-zA-Z]{2,}$
\* (re.match on a number is a TypeError)
validate_email(email) ==
    IF email.type # "string" THEN "raise"
    ELSE LET s == email.chars
             local == Letters \cup Digits \cup {".", "_", "%", "+", "-"}
             domain == Letters \cup Digits \cup {".", "-"}
         IN  IF \E at \in 2..Len(s), dot \in 1..Len(s) :
                   /\ s[at] = "@"
                   /\ \A i \in 1..(at - 1) : s[i] \in local
                   /\ dot > at + 1
                   /\ s[dot] = "."
                   /\ \A i \in (at + 1)..(dot - 1) : s[i] \in domain
                   /\ Len(s) >= dot + 2
                   /\ \A i \in (dot + 1)..Len(s) : s[i] \in Letters
             THEN "ok" ELSE "invalid"

\* validators.validate_password (len() of a number is a TypeError)
validate_password(password) ==
    IF password.type # "string" THEN "raise"
    ELSE LET s == password.chars
         IN  IF s = <<>> \/ Len(s) < 8 THEN "invalid"
             ELSE IF ~\E i \in 1..Len(s) : s[i] \in UpperCase THEN "invalid"
             ELSE IF ~\E i \in 1..Len(s) : s[i] \in Digits THEN "invalid"
             ELSE "ok"

\* AuthService.hash_password / verify_password: a bcrypt hash verifies the
\* password it was made from; anything that is not a str makes checkpw raise,
\* which verify_password turns into False
hash_password(password) == [bcrypt |-> password.chars]
verify_password(password, password_hash) ==
    password.type = "string" /\ password_hash.bcrypt = password.chars

\* AuthService.generate_jwt_token(user_id): a signed token, valid for 24 hours
generate_jwt_token(user_id) == [kind |-> "valid", sub |-> user_id]

\* uuid4 primary keys: a key no row of the table has
NewId(ids) == CHOOSE n \in 1..(Cardinality(ids) + 1) : n \notin ids

\* POST /api/auth/register: the response and the users table after it
register(body) ==
    LET reject(code, status) == [response |-> error_response(code, status), users |-> users]
        data == body[1]
        username == data.username[1]
        email == data.email[1]
        password == data.password[1]
    IN  IF body = None THEN reject("EMPTY_BODY", 400)
        ELSE IF ~validate_required_fields(data, <<"username", "email", "password">>)
        THEN reject("MISSING_FIELD", 400)
        ELSE IF validate_username(username) = "raise" THEN reject("SERVER_ERROR", 500)
        ELSE IF validate_username(username) = "invalid" THEN reject("INVALID_USERNAME", 400)
        ELSE IF validate_email(email) = "raise" THEN reject("SERVER_ERROR", 500)
        ELSE IF validate_email(email) = "invalid" THEN reject("INVALID_EMAIL", 400)
        ELSE IF validate_password(password) = "raise" THEN reject("SERVER_ERROR", 500)
        ELSE IF validate_password(password) = "invalid" THEN reject("WEAK_PASSWORD", 400)
        ELSE IF \E u \in users : u.username = username.chars \/ u.email = email.chars
        THEN reject("USER_EXISTS", 400)
        ELSE LET user == [user_id |-> NewId({u.user_id : u \in users}),
                          username |-> username.chars, email |-> email.chars,
                          password_hash |-> hash_password(password),
                          google_id |-> None]
             IN  [response |-> success_response(
                                   [user_id |-> user.user_id, username |-> user.username,
                                    email |-> user.email], 201),
                  users |-> users \cup {user}]

\* str.replace(' ', '_')
Replace(s) == [i \in 1..Len(s) |-> IF s[i] = " " THEN "_" ELSE s[i]]

\* email.split('@')[0]
BeforeAt(s) ==
    IF \E i \in 1..Len(s) : s[i] = "@"
    THEN SubSeq(s, 1, (CHOOSE i \in 1..Len(s) :
                          s[i] = "@" /\ \A j \in 1..(i - 1) : s[j] # "@") - 1)
    ELSE s

\* the while loop of google_login: base_username, then base_username_1, _2, ...
\* (the counters reached here have one digit)
RECURSIVE FreeUsername(_, _)
FreeUsername(base_username, counter) ==
    LET username == IF counter = 0 THEN base_username
                    ELSE base_username \o <<"_", ToString(counter)>>
    IN  IF \E u \in users : u.username = username
        THEN FreeUsername(base_username, counter + 1)
        ELSE username

\* POST /api/auth/google/login.  data.via is the key present in the body
\* ("credential", "code" or "none"); data.google is what Google answers:
\* ok = FALSE (the credential does not verify, the code exchange fails) or
\* the user info id, email, name
google_login(body) ==
    LET reject(code, status) == [response |-> error_response(code, status), users |-> users]
        data == body[1]
    IN  IF body = None THEN reject("EMPTY_BODY", 400)
        ELSE IF data.via = "none" THEN reject("MISSING_OAUTH_DATA", 400)
        ELSE IF ~data.google.ok
        THEN IF data.via = "credential" THEN reject("INVALID_GOOGLE_TOKEN", 401)
             ELSE reject("TOKEN_EXCHANGE_FAILED", 400)
        ELSE IF data.google.email = None
        THEN IF data.via = "credential" THEN reject("INVALID_GOOGLE_TOKEN", 401)
             ELSE reject("NO_EMAIL", 400)
        ELSE LET email == data.google.email[1]
                 existing == {u \in users : u.email = email}
             IN  IF existing = {}
                 THEN LET name == Lower(Replace(data.google.name))
                          base_username == IF name = <<>> THEN BeforeAt(email) ELSE name
                          user == [user_id |-> NewId({u.user_id : u \in users}),
                                   username |-> FreeUsername(base_username, 0),
                                   email |-> email,
                                   password_hash |-> [bcrypt |-> <<"G", "g", "l", "@">>],
                                   google_id |-> Some(data.google.id)]
                      IN  [response |-> success_response(
                                   [token |-> generate_jwt_token(user.user_id),
                                    username |-> user.username, is_new_user |-> TRUE], 200),
                           users |-> users \cup {user}]
                 ELSE LET user == CHOOSE u \in existing : TRUE
                      IN  [response |-> success_response(
                                   [token |-> generate_jwt_token(user.user_id),
                                    username |-> user.username, is_new_user |-> FALSE], 200),
                           users |-> (users \ {user}) \cup
                                     {IF user.google_id = None
                                      THEN [user EXCEPT !.google_id = Some(data.google.id)]
                                      ELSE user}]

\* email_hint of login: the first two characters, "***@" and the domain
EmailHint(email) ==
    IF Cardinality({i \in 1..Len(email) : email[i] = "@"}) = 1
    THEN LET at == CHOOSE i \in 1..Len(email) : email[i] = "@"
         IN  SubSeq(email, 1, IF at > 2 THEN 2 ELSE at - 1) \o <<"*", "*", "*", "@">>
                 \o SubSeq(email, at + 1, Len(email))
    ELSE <<"*", "*", "*">>

\* email_service.create_verification_entry: the codes of the user that are
\* not used yet are marked used, and the new code is stored
create_verification_entry(user_id, code) ==
    {IF v.user_id = user_id /\ ~v.used THEN [v EXCEPT !.used = TRUE] ELSE v :
        v \in verification_codes}
    \cup {[code_id |-> NewId({v.code_id : v \in verification_codes}),
           user_id |-> user_id, code |-> code, used |-> FALSE,
           expired |-> FALSE]}

\* POST /api/auth/login; code is what generate_verification_code() draws.
\* Whether the e-mail could be sent does not change the response.
login(body, code) ==
    LET reject(error, status) ==
            [response |-> error_response(error, status),
             verification_codes |-> verification_codes]
        data == body[1]
        username == data.username[1]
        password == data.password[1]
    IN  IF body = None THEN reject("EMPTY_BODY", 400)
        ELSE IF ~validate_required_fields(data, <<"username", "password">>)
        THEN reject("MISSING_FIELD", 400)
        ELSE LET found == {u \in users : username.type = "string"
                                         /\ u.username = username.chars}
             IN  IF found = {} THEN reject("USER_NOT_FOUND", 404)
                 ELSE LET user == CHOOSE u \in found : TRUE
                      IN  IF ~verify_password(password, user.password_hash)
                          THEN reject("INVALID_PASSWORD", 400)
                          ELSE [response |-> success_response(
                                     [user_id |-> user.user_id,
                                      email_hint |-> EmailHint(user.email),
                                      verification_required |-> TRUE,
                                      expires_in_seconds |-> 600], 200),
                                verification_codes |->
                                     create_verification_entry(user.user_id, code)]

(***************************************************************************)
(* Requests to the authentication endpoints                                *)
(***************************************************************************)
MaxUsers == 2
MaxCodes == 2

UsernameValues ==
    {String(<<"a","l","i","c","e">>), String(<<"b","o","b","_","2">>), String(<<"a","l">>)}
EmailValues ==
    {String(<<"a","l","i","c","e","@","x",".","i","o">>),
     String(<<"b","o","b","@","x",".","i","o">>),
     String(<<"b","o","b","@","x">>), Number(<<"1","2","3">>)}
PasswordValues ==
    {String(<<"P","a","s","s","w","0","r","d","X">>), String(<<"p","a","s","s","w","o","r","d">>),
     Number(<<"1","2","3","4","5","6","7","8">>)}

Optional(S) == {None} \cup {Some(x) : x \in S}

RegisterBodies ==
    Optional([username : Optional(UsernameValues), email : Optional(EmailValues),
              password : Optional(PasswordValues)])

GoogleBodies ==
    Optional([via : {"credential", "code", "none"},
              google : {[ok |-> FALSE]} \cup
                       [ok : {TRUE}, id : {"g-1"},
                        email : Optional({<<"a","l","i","c","e","@","x",".","i","o">>,
                                          <<"c","a","r","o","l","@","x",".","i","o">>}),
                        name : {<<"A","l","i","c","e">>, <<"B","o","b"," ","2">>, <<>>}]])

LoginBodies ==
    Optional([username : Optional({String(<<"a","l","i","c","e">>),
                                   String(<<"b","o","b","_","2">>),
                                   String(<<"c","a","r","o","l">>),
                                   Number(<<"1","2","3","4","5">>)}),
              password : Optional(PasswordValues \cup
                                  {String(<<"W","r","o","n","g","1","2","3","4">>)})])

\* no request handled yet, and the given rows in the users table
InitApi(rows) ==
    /\ pc = "ready"
    /\ image = None
    /\ recognized = None
    /\ nutrition_api_key = ""
    /\ request = None
    /\ nutrition = None
    /\ MealIdle
    /\ meals = {}
    /\ meal_items = {}
    /\ users = rows
    /\ verification_codes = {}
    /\ workouts = {}
    /\ workout_exercises = {}
    /\ http_request = None
    /\ http_response = None
    /\ request_count = 0
    /\ sessions = {}

Register ==
    \E body \in RegisterBodies :
        LET result == register(body)
        IN  /\ Cardinality(result.users) <= MaxUsers
            /\ http_request' = [endpoint |-> "register", body |-> body]
            /\ http_response' = result.response
            /\ users' = result.users
            /\ UNCHANGED <<pc, image, recognized, nutrition_api_key, request, nutrition,
                           meal_vars, meals, meal_items, verification_codes, workouts, workout_exercises, request_count,
                           sessions>>

GoogleLogin ==
    \E body \in GoogleBodies :
        LET result == google_login(body)
        IN  /\ Cardinality(result.users) <= MaxUsers
            /\ http_request' = [endpoint |-> "google_login", body |-> body]
            /\ http_response' = result.response
            /\ users' = result.users
            /\ UNCHANGED <<pc, image, recognized, nutrition_api_key, request, nutrition,
                           meal_vars, meals, meal_items, verification_codes, workouts, workout_exercises, request_count,
                           sessions>>

SpecRegister == InitApi({}) /\ [][Register \/ GoogleLogin]_vars

\* the rows that registering alice and bob_2 leaves in the users table
RegisteredUsers ==
    {[user_id |-> 1, username |-> <<"a","l","i","c","e">>,
      email |-> <<"a","l","i","c","e","@","x",".","i","o">>,
      password_hash |-> hash_password(String(<<"P","a","s","s","w","0","r","d","X">>)),
      google_id |-> None],
     [user_id |-> 2, username |-> <<"b","o","b","_","2">>,
      email |-> <<"b","o","b","@","x",".","i","o">>,
      password_hash |-> hash_password(String(<<"P","a","s","s","w","0","r","d","X">>)),
      google_id |-> None]}

Login ==
    \E body \in LoginBodies, code \in {"123456", "654321"} :
        LET result == login(body, code)
        IN  /\ Cardinality(result.verification_codes) <= MaxCodes
            /\ http_request' = [endpoint |-> "login", body |-> body]
            /\ http_response' = result.response
            /\ verification_codes' = result.verification_codes
            /\ UNCHANGED <<pc, image, recognized, nutrition_api_key, request, nutrition,
                           meal_vars, meals, meal_items, users, workouts, workout_exercises, request_count,
                           sessions>>

SpecLogin == InitApi(RegisteredUsers) /\ [][Login]_vars

(***************************************************************************)
(* HTTP API: app/routes/workouts.py.  A request carries the Authorization  *)
(* header (None when it is missing or empty, else Some(token)), the path    *)
(* parameters and the JSON body (None when there is no JSON or it is        *)
(* empty, else Some(data), a key of data being None when it is missing).   *)
(* JSON numbers are integers here.  Calories are kept in hundredths and     *)
(* typical_calories_per_minute in tenths.  A handler yields the set of      *)
(* outcomes it can have, each the response and the two tables after it.    *)
(***************************************************************************)
WORKOUT_TYPES == {"strength", "cardio", "flexibility", "mixed"}
WORKOUT_STATUSES == {"in_progress", "completed", "cancelled"}

\* rows of the exercises table (seeded; no workout route writes it)
exercises ==
    {[exercise_id |-> "bench_press", typical_calories_per_minute |-> 85],
     [exercise_id |-> "shrugs", typical_calories_per_minute |-> 35]}

\* a return before anything is committed
NoCommit(response) ==
    {[response |-> response, workouts |-> workouts,
      workout_exercises |-> workout_exercises]}

\* responses.deleted_response(message)
deleted_response == [status |-> 200, success |-> TRUE]

\* decorators.token_required around fn: a missing header, or a token that
\* verify_jwt_in_request rejects, is answered 401 and fn is not called
token_required(authorization, fn) ==
    IF authorization = None THEN NoCommit(error_response("UNAUTHORIZED", 401))
    ELSE IF authorization[1].kind # "valid"
    THEN NoCommit(error_response("UNAUTHORIZED", 401))
    ELSE fn

\* decorators.validate_json around fn
validate_json(body, fn) ==
    IF body = None THEN NoCommit(error_response("VALIDATION_ERROR", 422))
    ELSE fn

\* calorie_calculator.calculate_calories_burned(calories_per_minute, num / den)
calculate_calories_burned(calories_per_minute, num, den) ==
    IF num <= 0 THEN {0}
    ELSE {10 * tenths : tenths \in RoundDiv(calories_per_minute * num, den)}

serialize_workout_exercise(workout_exercise) ==
    [workout_exercise_id |-> workout_exercise.workout_exercise_id,
     exercise_id |-> workout_exercise.exercise_id,
     sets |-> workout_exercise.sets,
     reps |-> workout_exercise.reps,
     weight_used |-> workout_exercise.weight_used,
     weight_unit |-> workout_exercise.weight_unit,
     duration_seconds |-> workout_exercise.duration_seconds,
     calories_burned |-> workout_exercise.calories_burned,
     order_in_workout |-> workout_exercise.order_in_workout]

\* serialize_workout(workout, include_exercises=True) over the given rows of
\* workout_exercises; the exercises carry their order_in_workout
serialize_workout(workout, rows) ==
    [workout_id |-> workout.workout_id,
     user_id |-> workout.user_id,
     name |-> IF workout.notes = "" THEN "Unnamed Workout" ELSE workout.notes,
     workout_type |-> workout.workout_type,
     status |-> workout.status,
     total_duration_minutes |-> workout.total_duration_minutes,
     total_calories_burned |-> workout.total_calories_burned,
     notes |-> workout.notes,
     completed_at |-> workout.completed_at,
     exercises |-> {serialize_workout_exercise(we) :
                       we \in {r \in rows : r.workout_id = workout.workout_id}}]

\* POST /api/workouts
create_workout(token_user_id, data) ==
    IF data.workout_type = None
    THEN NoCommit(error_response("VALIDATION_ERROR", 422))
    ELSE IF data.workout_type[1] \notin WORKOUT_TYPES
    THEN NoCommit(error_response("VALIDATION_ERROR", 422))
    ELSE LET workout ==
                 [workout_id |-> NewId({w.workout_id : w \in workouts}),
                  user_id |-> token_user_id,
                  workout_type |-> data.workout_type[1],
                  status |-> "in_progress",
                  total_duration_minutes |-> 0,
                  total_calories_burned |-> 0,
                  notes |-> IF data.name # None /\ data.name[1] # "" THEN data.name[1]
                            ELSE IF data.notes # None THEN data.notes[1] ELSE "",
                  completed_at |-> None]
         IN  {[response |-> success_response(
                                serialize_workout(workout, workout_exercises), 201),
               workouts |-> workouts \cup {workout},
               workout_exercises |-> workout_exercises]}

\* POST /api/workouts/<workout_id>/exercises
add_exercise_to_workout(token_user_id, workout_id, data) ==
    LET found == {w \in workouts : w.workout_id = workout_id}
        exercise == {e \in exercises : e.exercise_id = data.exercise_id[1]}
        in_workout == {r \in workout_exercises : r.workout_id = workout_id}
        last_order == IF in_workout = {} THEN 0
                      ELSE CHOOSE n \in {r.order_in_workout : r \in in_workout} :
                               \A r \in in_workout : r.order_in_workout <= n
        sets == data.sets[1]
        timed == data.duration_seconds # None /\ data.duration_seconds[1] # 0
    IN  IF ~validate_required_fields(data,
               <<"exercise_id", "sets", "reps", "weight_used", "weight_unit">>)
        THEN NoCommit(error_response("VALIDATION_ERROR", 422))
        ELSE IF found = {} THEN NoCommit(error_response("NOT_FOUND", 404))
        ELSE IF \E w \in found : w.user_id # token_user_id
        THEN NoCommit(error_response("FORBIDDEN", 403))
        ELSE IF exercise = {} THEN NoCommit(error_response("NOT_FOUND", 404))
        ELSE IF sets <= 0 \/ data.reps[1] <= 0 \/ data.weight_used[1] <= 0
        THEN NoCommit(error_response("VALIDATION_ERROR", 422))
        ELSE {LET workout_exercise ==
                      [workout_exercise_id |->
                           NewId({r.workout_exercise_id : r \in workout_exercises}),
                       workout_id |-> workout_id,
                       exercise_id |-> data.exercise_id[1],
                       sets |-> sets,
                       reps |-> data.reps[1],
                       weight_used |-> data.weight_used[1],
                       weight_unit |-> data.weight_unit[1],
                       duration_seconds |-> IF timed THEN data.duration_seconds[1]
                                            ELSE sets * 2 * 60,
                       calories_burned |-> calories_burned,
                       order_in_workout |-> last_order + 1]
              IN  [response |-> success_response(
                                    serialize_workout_exercise(workout_exercise), 201),
                   workouts |-> workouts,
                   workout_exercises |-> workout_exercises \cup {workout_exercise}] :
              calories_burned \in
                  LET e == CHOOSE e \in exercise : TRUE
                  IN  IF timed
                      THEN calculate_calories_burned(e.typical_calories_per_minute,
                                                     data.duration_seconds[1], 60)
                      ELSE calculate_calories_burned(e.typical_calories_per_minute,
                                                     sets * 2, 1)}

RECURSIVE SumCalories(_)
SumCalories(rows) ==
    IF rows = {} THEN 0
    ELSE LET r == CHOOSE r \in rows : TRUE
         IN  r.calories_burned + SumCalories(rows \ {r})

\* update_workout that leaves completed_at alone
update_workout_no_completed_at(token_user_id, workout_id, data) ==
    LET found == {w \in workouts : w.workout_id = workout_id}
        workout == CHOOSE w \in found : TRUE
        rows == {r \in workout_exercises : r.workout_id = workout_id}
        with_status ==
            IF data.status = None THEN workout
            ELSE IF data.status[1] = "completed"
            THEN [workout EXCEPT !.status = "completed",
                                 !.total_calories_burned = SumCalories(rows),
                                 !.total_duration_minutes = Cardinality(rows) * 2]
            ELSE [workout EXCEPT !.status = data.status[1]]
        updated == IF data.notes = None THEN with_status
                   ELSE [with_status EXCEPT !.notes = data.notes[1]]
    IN  IF found = {} THEN NoCommit(error_response("NOT_FOUND", 404))
        ELSE IF workout.user_id # token_user_id
        THEN NoCommit(error_response("FORBIDDEN", 403))
        ELSE IF data.status # None /\ data.status[1] \notin WORKOUT_STATUSES
        THEN NoCommit(error_response("VALIDATION_ERROR", 422))
        ELSE {[response |-> success_response(
                                serialize_workout(updated, workout_exercises), 200),
               workouts |-> (workouts \ {workout}) \cup {updated},
               workout_exercises |-> workout_exercises]}

\* PUT /api/workouts/<workout_id>
update_workout(token_user_id, workout_id, data) ==
    LET found == {w \in workouts : w.workout_id = workout_id}
        workout == CHOOSE w \in found : TRUE
        rows == {r \in workout_exercises : r.workout_id = workout_id}
        with_status ==
            IF data.status = None THEN workout
            ELSE IF data.status[1] = "completed"
            THEN [workout EXCEPT !.status = "completed",
                                 !.completed_at = Some("utcnow"),
                                 !.total_calories_burned = SumCalories(rows),
                                 !.total_duration_minutes = Cardinality(rows) * 2]
            ELSE [workout EXCEPT !.status = data.status[1]]
        updated == IF data.notes = None THEN with_status
                   ELSE [with_status EXCEPT !.notes = data.notes[1]]
    IN  IF found = {} THEN NoCommit(error_response("NOT_FOUND", 404))
        ELSE IF workout.user_id # token_user_id
        THEN NoCommit(error_response("FORBIDDEN", 403))
        ELSE IF data.status # None /\ data.status[1] \notin WORKOUT_STATUSES
        THEN NoCommit(error_response("VALIDATION_ERROR", 422))
        ELSE {[response |-> success_response(
                                serialize_workout(updated, workout_exercises), 200),
               workouts |-> (workouts \ {workout}) \cup {updated},
               workout_exercises |-> workout_exercises]}

\* delete_workout without the delete of the workout's rows of workout_exercises
delete_workout_keep_exercises(token_user_id, workout_id) ==
    LET found == {w \in workouts : w.workout_id = workout_id}
    IN  IF found = {} THEN NoCommit(error_response("NOT_FOUND", 404))
        ELSE IF \E w \in found : w.user_id # token_user_id
        THEN NoCommit(error_response("FORBIDDEN", 403))
        ELSE {[response |-> deleted_response,
               workouts |-> workouts \ found,
               workout_exercises |-> workout_exercises]}

\* DELETE /api/workouts/<workout_id>
delete_workout(token_user_id, workout_id) ==
    LET found == {w \in workouts : w.workout_id = workout_id}
    IN  IF found = {} THEN NoCommit(error_response("NOT_FOUND", 404))
        ELSE IF \E w \in found : w.user_id # token_user_id
        THEN NoCommit(error_response("FORBIDDEN", 403))
        ELSE {[response |-> deleted_response,
               workouts |-> workouts \ found,
               workout_exercises |->
                   {r \in workout_exercises : r.workout_id # workout_id}]}

\* DELETE /api/workouts/<workout_id>/exercises/<exercise_id>; .first() has no
\* ORDER BY, so any row of that exercise in the workout can be the one removed
remove_exercise_from_workout(token_user_id, workout_id, exercise_id) ==
    LET found == {w \in workouts : w.workout_id = workout_id}
        rows == {r \in workout_exercises :
                    r.workout_id = workout_id /\ r.exercise_id = exercise_id}
    IN  IF found = {} THEN NoCommit(error_response("NOT_FOUND", 404))
        ELSE IF \E w \in found : w.user_id # token_user_id
        THEN NoCommit(error_response("FORBIDDEN", 403))
        ELSE IF rows = {} THEN NoCommit(error_response("NOT_FOUND", 404))
        ELSE {[response |-> deleted_response,
               workouts |-> workouts,
               workout_exercises |-> workout_exercises \ {workout_exercise}] :
              workout_exercise \in rows}

(***************************************************************************)
(* Requests to the workout endpoints                                       *)
(***************************************************************************)
MaxWorkouts == 2
MaxExercises == 2
MaxRequests == 5

\* headers that do not authenticate: none, an expired token, a forged one
BadAuthorizations ==
    {None, Some([kind |-> "expired", sub |-> 1]), Some([kind |-> "invalid", sub |-> 1])}

\* headers with the token a user got from generate_jwt_token
GoodAuthorizations == {Some(generate_jwt_token(u.user_id)) : u \in users}

CreateRequests ==
    LET CreateBody(workout_type) ==
            Some([workout_type |-> Some(workout_type), name |-> None, notes |-> None])
    IN
    [authorization : GoodAuthorizations, body : {CreateBody("strength")}]
    \cup [authorization : {Some(generate_jwt_token(1))},
          body : {None, CreateBody("yoga"),
                  Some([workout_type |-> None, name |-> None, notes |-> Some("Test")])}]
    \cup [authorization : BadAuthorizations, body : {None, CreateBody("strength")}]

ExerciseBody(exercise_id, sets, reps, duration_seconds) ==
    Some([exercise_id |-> Some(exercise_id), sets |-> sets, reps |-> Some(reps),
          weight_used |-> Some(185), weight_unit |-> Some("lbs"),
          duration_seconds |-> duration_seconds])

ExerciseRequests ==
    [authorization : GoodAuthorizations, workout_id : 1..MaxWorkouts,
     body : {ExerciseBody("bench_press", Some(3), 10, None)}]
    \cup [authorization : {Some(generate_jwt_token(1))}, workout_id : {1},
          body : {None, ExerciseBody("plank", Some(3), 10, None),
                  ExerciseBody("shrugs", Some(0), 10, None),
                  ExerciseBody("shrugs", None, 10, None)}]
    \cup [authorization : BadAuthorizations, workout_id : {1},
          body : {ExerciseBody("bench_press", Some(3), 10, None)}]

UpdateRequests ==
    [authorization : GoodAuthorizations, workout_id : 1..MaxWorkouts,
     body : {Some([status |-> Some("completed"), notes |-> Some("Great workout!")]),
             Some([status |-> Some("cancelled"), notes |-> None]),
             Some([status |-> Some("in_progress"), notes |-> None])}]
    \cup [authorization : {Some(generate_jwt_token(1))}, workout_id : {1},
          body : {None, Some([status |-> Some("done"), notes |-> None])}]
    \cup [authorization : BadAuthorizations, workout_id : {1},
          body : {Some([status |-> Some("completed"), notes |-> None])}]

DeleteRequests ==
    [authorization : GoodAuthorizations, workout_id : 1..MaxWorkouts]
    \cup [authorization : BadAuthorizations, workout_id : {1}]

RemoveRequests ==
    [authorization : GoodAuthorizations, workout_id : 1..MaxWorkouts,
     exercise_id : {"bench_press"}]
    \cup [authorization : {Some(generate_jwt_token(1))}, workout_id : {1},
          exercise_id : {"shrugs"}]
    \cup [authorization : BadAuthorizations, workout_id : {1},
          exercise_id : {"bench_press"}]

\* the request is recorded with its answer, and the outcome is committed
Handle(endpoint, req, result) ==
    /\ request_count < MaxRequests
    /\ Cardinality(result.workouts) <= MaxWorkouts
    /\ Cardinality(result.workout_exercises) <= MaxExercises
    /\ request_count' = request_count + 1
    /\ http_request' = [endpoint |-> endpoint, request |-> req]
    /\ http_response' = result.response
    /\ workouts' = result.workouts
    /\ workout_exercises' = result.workout_exercises
    /\ UNCHANGED <<pc, image, recognized, nutrition_api_key, request, nutrition,
                   meal_vars, meals, meal_items, users, verification_codes, sessions>>

CreateWorkout ==
    \E req \in CreateRequests :
        \E result \in validate_json(req.body,
                          token_required(req.authorization,
                              create_workout(req.authorization[1].sub, req.body[1]))) :
            Handle("create_workout", req, result)

AddExercise(requests) ==
    \E req \in requests :
        \E result \in validate_json(req.body,
                          token_required(req.authorization,
                              add_exercise_to_workout(req.authorization[1].sub,
                                                      req.workout_id, req.body[1]))) :
            Handle("add_exercise_to_workout", req, result)

UpdateWorkout ==
    \E req \in UpdateRequests :
        \E result \in validate_json(req.body,
                          token_required(req.authorization,
                              update_workout(req.authorization[1].sub,
                                             req.workout_id, req.body[1]))) :
            Handle("update_workout", req, result)

DeleteWorkout ==
    \E req \in DeleteRequests :
        \E result \in token_required(req.authorization,
                          delete_workout(req.authorization[1].sub, req.workout_id)) :
            Handle("delete_workout", req, result)

RemoveExercise ==
    \E req \in RemoveRequests :
        \E result \in token_required(req.authorization,
                          remove_exercise_from_workout(req.authorization[1].sub,
                                                       req.workout_id, req.exercise_id)) :
            Handle("remove_exercise_from_workout", req, result)


(***************************************************************************)
(* Updating an exercise of a workout, the second add-exercise endpoint      *)
(* (app/routes/ml.py) and the read endpoints of app/routes/workouts.py      *)
(***************************************************************************)
\* PUT /api/workouts/<workout_id>/exercises/<exercise_id>; .first() has no
\* ORDER BY, so any row of that exercise in the workout can be the one updated.
\* A field assigned before a later field is rejected is never committed.
\* calories_burned = round(sets * reps * typical_calories_per_minute / 10, 2),
\* which is sets * reps * (calories per minute in tenths) hundredths.
update_workout_exercise(token_user_id, workout_id, exercise_id, data) ==
    LET found == {w \in workouts : w.workout_id = workout_id}
        rows == {r \in workout_exercises :
                    r.workout_id = workout_id /\ r.exercise_id = exercise_id}
        exercise == {e \in exercises : e.exercise_id = exercise_id}
        Invalid(value) == value # None /\ value[1] <= 0
        Updated(row) ==
            LET sets == IF data.sets # None THEN data.sets[1] ELSE row.sets
                reps == IF data.reps # None THEN data.reps[1] ELSE row.reps
                e == CHOOSE e \in exercise : TRUE
            IN  [row EXCEPT !.sets = sets, !.reps = reps,
                            !.weight_used = IF data.weight_used # None
                                            THEN data.weight_used[1] ELSE @,
                            !.calories_burned =
                                sets * reps * e.typical_calories_per_minute]
    IN  IF found = {} THEN NoCommit(error_response("NOT_FOUND", 404))
        ELSE IF \E w \in found : w.user_id # token_user_id
        THEN NoCommit(error_response("FORBIDDEN", 403))
        ELSE IF rows = {} THEN NoCommit(error_response("NOT_FOUND", 404))
        ELSE IF exercise = {} THEN NoCommit(error_response("NOT_FOUND", 404))
        ELSE IF Invalid(data.sets) \/ Invalid(data.reps) \/ Invalid(data.weight_used)
        THEN NoCommit(error_response("VALIDATION_ERROR", 422))
        ELSE {[response |-> success_response(
                                serialize_workout_exercise(Updated(row)), 200),
               workouts |-> workouts,
               workout_exercises |->
                   (workout_exercises \ {row}) \cup {Updated(row)}] :
              row \in rows}

\* ml.add_exercise_to_workout that numbers the new row by the count of rows
ml_add_exercise_to_workout_by_count(token_user_id, body) ==
    LET data == body[1]
        workout_id == data.workout_id[1]
        found == {w \in workouts :
                     w.workout_id = workout_id /\ w.user_id = token_user_id}
        exercise == {e \in exercises : e.exercise_id = data.exercise_id[1]}
        in_workout == {r \in workout_exercises : r.workout_id = workout_id}
        sets == IF data.sets = None THEN 3 ELSE data.sets[1]
        reps == IF data.reps = None THEN 10 ELSE data.reps[1]
        duration_seconds == IF data.duration_seconds = None THEN 0
                            ELSE data.duration_seconds[1]
    IN  IF body = None THEN NoCommit(error_response("VALIDATION_ERROR", 422))
        ELSE IF data.workout_id = None
        THEN NoCommit(error_response("VALIDATION_ERROR", 422))
        ELSE IF data.exercise_id = None /\ data.exercise_name = None
        THEN NoCommit(error_response("VALIDATION_ERROR", 422))
        ELSE IF found = {} THEN NoCommit(error_response("NOT_FOUND", 404))
        ELSE {LET workout_exercise ==
                      [workout_exercise_id |->
                           NewId({r.workout_exercise_id : r \in workout_exercises}),
                       workout_id |-> workout_id,
                       exercise_id |-> data.exercise_id[1],
                       sets |-> sets,
                       reps |-> reps,
                       weight_used |-> IF data.weight_used = None THEN 0
                                       ELSE data.weight_used[1],
                       weight_unit |-> IF data.weight_unit = None THEN "lbs"
                                       ELSE data.weight_unit[1],
                       duration_seconds |-> duration_seconds,
                       calories_burned |-> calories_burned,
                       order_in_workout |-> Cardinality(in_workout) + 1]
              IN  [response |-> success_response(
                                    serialize_workout_exercise(workout_exercise), 201),
                   workouts |-> workouts,
                   workout_exercises |-> workout_exercises \cup {workout_exercise}] :
              calories_burned \in
                  LET e == CHOOSE e \in exercise : TRUE
                  IN  IF duration_seconds > 0
                      THEN RoundDiv(duration_seconds * e.typical_calories_per_minute, 6)
                      ELSE {sets * reps * e.typical_calories_per_minute}}

\* POST /api/ml/add-exercise-to-workout, for a request that names an exercise
\* of the exercises table by its id (an exercise that is not found is created,
\* which writes the exercises table).  The JSON is checked inside the handler,
\* below token_required.  calories_burned = round(duration_seconds / 60 *
\* calories_per_minute, 2), or round(sets * reps * calories_per_minute / 10, 2).
ml_add_exercise_to_workout(token_user_id, body) ==
    LET data == body[1]
        workout_id == data.workout_id[1]
        found == {w \in workouts :
                     w.workout_id = workout_id /\ w.user_id = token_user_id}
        exercise == {e \in exercises : e.exercise_id = data.exercise_id[1]}
        in_workout == {r \in workout_exercises : r.workout_id = workout_id}
        last_order == IF in_workout = {} THEN 0
                      ELSE CHOOSE n \in {r.order_in_workout : r \in in_workout} :
                               \A r \in in_workout : r.order_in_workout <= n
        sets == IF data.sets = None THEN 3 ELSE data.sets[1]
        reps == IF data.reps = None THEN 10 ELSE data.reps[1]
        duration_seconds == IF data.duration_seconds = None THEN 0
                            ELSE data.duration_seconds[1]
    IN  IF body = None THEN NoCommit(error_response("VALIDATION_ERROR", 422))
        ELSE IF data.workout_id = None
        THEN NoCommit(error_response("VALIDATION_ERROR", 422))
        ELSE IF data.exercise_id = None /\ data.exercise_name = None
        THEN NoCommit(error_response("VALIDATION_ERROR", 422))
        ELSE IF found = {} THEN NoCommit(error_response("NOT_FOUND", 404))
        ELSE {LET workout_exercise ==
                      [workout_exercise_id |->
                           NewId({r.workout_exercise_id : r \in workout_exercises}),
                       workout_id |-> workout_id,
                       exercise_id |-> data.exercise_id[1],
                       sets |-> sets,
                       reps |-> reps,
                       weight_used |-> IF data.weight_used = None THEN 0
                                       ELSE data.weight_used[1],
                       weight_unit |-> IF data.weight_unit = None THEN "lbs"
                                       ELSE data.weight_unit[1],
                       duration_seconds |-> duration_seconds,
                       calories_burned |-> calories_burned,
                       order_in_workout |-> last_order + 1]
              IN  [response |-> success_response(
                                    serialize_workout_exercise(workout_exercise), 201),
                   workouts |-> workouts,
                   workout_exercises |-> workout_exercises \cup {workout_exercise}] :
              calories_burned \in
                  LET e == CHOOSE e \in exercise : TRUE
                  IN  IF duration_seconds > 0
                      THEN RoundDiv(duration_seconds * e.typical_calories_per_minute, 6)
                      ELSE {sets * reps * e.typical_calories_per_minute}}

\* GET /api/workouts/<workout_id>
get_workout(token_user_id, workout_id) ==
    LET found == {w \in workouts : w.workout_id = workout_id}
    IN  IF found = {} THEN NoCommit(error_response("NOT_FOUND", 404))
        ELSE IF \E w \in found : w.user_id # token_user_id
        THEN NoCommit(error_response("FORBIDDEN", 403))
        ELSE NoCommit(success_response(
                 serialize_workout(CHOOSE w \in found : TRUE, workout_exercises), 200))

\* GET /api/workouts/<user_id> without start_date, end_date, page or per_page:
\* the items of the first page (10 a page), serialized without their exercises
list_workouts(token_user_id, user_id) ==
    IF ~\E u \in users : u.user_id = user_id
    THEN NoCommit(error_response("NOT_FOUND", 404))
    ELSE NoCommit(success_response(
             {serialize_workout(w, {}) : w \in {w \in workouts : w.user_id = user_id}},
             200))

\* GET /api/workouts/<user_id>/recent without limit (5 by default)
get_recent_workouts(token_user_id, user_id) ==
    IF ~\E u \in users : u.user_id = user_id
    THEN NoCommit(error_response("NOT_FOUND", 404))
    ELSE NoCommit(success_response(
             {serialize_workout(w, {}) : w \in {w \in workouts : w.user_id = user_id}},
             200))

\* GET /api/workouts/<user_id>/by-date/<date>; create_workout is never given a
\* workout_date here, so every row has the date of the day, "2026-01-13"
get_workouts_by_date(token_user_id, user_id, date) ==
    IF ~\E u \in users : u.user_id = user_id
    THEN NoCommit(error_response("NOT_FOUND", 404))
    ELSE IF date \notin {"2026-01-13", "2026-01-12"}
    THEN NoCommit(error_response("VALIDATION_ERROR", 422))
    ELSE NoCommit(success_response(
             {serialize_workout(w, workout_exercises) :
                  w \in {w \in workouts : w.user_id = user_id /\ date = "2026-01-13"}},
             200))

UpdateExercise ==
    \E req \in
        LET Body(sets, reps, weight_used) ==
                Some([sets |-> sets, reps |-> reps, weight_used |-> weight_used])
        IN  [authorization : GoodAuthorizations, workout_id : 1..MaxWorkouts,
             exercise_id : {"bench_press"},
             body : {Body(Some(4), Some(12), Some(195)), Body(Some(4), Some(0), None)}]
            \cup [authorization : {Some(generate_jwt_token(1))}, workout_id : {1},
                  exercise_id : {"bench_press"},
                  body : {None, Body(Some(0), None, None), Body(None, None, Some(0))}]
            \cup [authorization : {Some(generate_jwt_token(1))}, workout_id : {1},
                  exercise_id : {"shrugs", "plank"}, body : {Body(None, Some(12), None)}] :
        \E result \in validate_json(req.body,
                          token_required(req.authorization,
                              update_workout_exercise(req.authorization[1].sub,
                                  req.workout_id, req.exercise_id, req.body[1]))) :
            Handle("update_workout_exercise", req, result)

MlAddExercise ==
    \E req \in
        LET Body(workout_id, exercise_id, sets, duration_seconds) ==
                Some([workout_id |-> workout_id, exercise_id |-> exercise_id,
                      exercise_name |-> None, sets |-> sets, reps |-> None,
                      weight_used |-> None, weight_unit |-> None,
                      duration_seconds |-> duration_seconds])
        IN  [authorization : GoodAuthorizations,
             body : {Body(Some(workout_id), Some("shrugs"), None, None) :
                         workout_id \in 1..MaxWorkouts}]
            \cup [authorization : {Some(generate_jwt_token(1))},
                  body : {None, Body(None, Some("shrugs"), None, None),
                          Body(Some(1), None, None, None),
                          Body(Some(1), Some("shrugs"), Some(2), Some(90))}]
            \cup [authorization : BadAuthorizations,
                  body : {Body(Some(1), Some("shrugs"), None, None)}] :
        \E result \in token_required(req.authorization,
                          ml_add_exercise_to_workout(req.authorization[1].sub,
                                                     req.body)) :
            Handle("ml_add_exercise_to_workout", req, result)

\* the four read endpoints, asked by each user about each workout and user
ReadWorkouts ==
    \E req \in
        [endpoint : {"get_workout"}, authorization : GoodAuthorizations,
         id : 1..MaxWorkouts, date : {""}]
        \cup [endpoint : {"list_workouts", "get_recent_workouts"},
              authorization : GoodAuthorizations, id : 1..(MaxUsers + 1), date : {""}]
        \cup [endpoint : {"get_workouts_by_date"}, authorization : GoodAuthorizations,
              id : 1..MaxUsers, date : {"2026-01-13", "2026-01-12", "13/01/2026"}]
        \cup [endpoint : {"get_workout", "list_workouts"},
              authorization : BadAuthorizations, id : {1}, date : {""}] :
        \E result \in token_required(req.authorization,
                          LET token_user_id == req.authorization[1].sub
                          IN  CASE req.endpoint = "get_workout" ->
                                       get_workout(token_user_id, req.id)
                                [] req.endpoint = "list_workouts" ->
                                       list_workouts(token_user_id, req.id)
                                [] req.endpoint = "get_recent_workouts" ->
                                       get_recent_workouts(token_user_id, req.id)
                                [] req.endpoint = "get_workouts_by_date" ->
                                       get_workouts_by_date(token_user_id, req.id,
                                                            req.date)) :
            Handle(req.endpoint, req, result)
SpecWorkouts ==
    InitApi(RegisteredUsers)
    /\ [][CreateWorkout \/ AddExercise(ExerciseRequests) \/ MlAddExercise
          \/ UpdateExercise \/ UpdateWorkout \/ DeleteWorkout
          \/ RemoveExercise]_vars

\* reading the workouts that create and add-exercise requests have stored
SpecReads ==
    InitApi(RegisteredUsers)
    /\ [][CreateWorkout \/ AddExercise(ExerciseRequests) \/ ReadWorkouts]_vars

(***************************************************************************)
(* Adding exercises to one workout of alice                                *)
(***************************************************************************)
MaxAdded == 1

CalorieRequests ==
    {[authorization |-> authorization, workout_id |-> 1,
      body |-> ExerciseBody(exercise_id, Some(sets), reps, duration_seconds)] :
        authorization \in GoodAuthorizations, exercise_id \in {"bench_press", "shrugs"}, sets \in {1, 3, 4},
        reps \in {1, 10, 20}, duration_seconds \in {None, Some(0), Some(90), Some(100)}}

InitCalories ==
    /\ pc = "ready"
    /\ image = None
    /\ recognized = None
    /\ nutrition_api_key = ""
    /\ request = None
    /\ nutrition = None
    /\ MealIdle
    /\ meals = {}
    /\ meal_items = {}
    /\ users = RegisteredUsers
    /\ verification_codes = {}
    /\ workouts = {[workout_id |-> 1, user_id |-> 1, workout_type |-> "strength",
                    status |-> "in_progress", total_duration_minutes |-> 0,
                    total_calories_burned |-> 0, notes |-> "", completed_at |-> None]}
    /\ workout_exercises = {}
    /\ http_request = None
    /\ http_response = None
    /\ sessions = {}
    /\ request_count = MaxRequests - MaxAdded   \* MaxAdded requests are handled

SpecCalories == InitCalories /\ [][AddExercise(CalorieRequests)]_vars

(***************************************************************************)
(* Two-step login: /api/auth/login and /resend-code create a verification  *)
(* code, /verify-login checks it.  Requests are served concurrently:       *)
(* create_verification_entry first reads the user's unused codes and       *)
(* later commits its changes, and other requests run in between.           *)
(* A row of verification_codes carries expired, which becomes true when    *)
(* its expires_at has passed.                                              *)
(***************************************************************************)
\* EmailVerificationCode.is_valid()
is_valid(verification) == ~verification.used /\ ~verification.expired

\* verify_code that does not mark the code as used
verify_code_no_mark(user_id, code) ==
    LET matching == {v \in verification_codes :
                        v.user_id = user_id /\ v.code = code /\ ~v.used}
    IN  IF matching = {}
        THEN {[is_valid |-> FALSE, verification_codes |-> verification_codes]}
        ELSE {[is_valid |-> is_valid(verification),
               verification_codes |-> verification_codes] :
              verification \in matching}

\* email_service.verify_code; .first() has no ORDER BY, so any unused row
\* with that user and code can be the one looked at
verify_code(user_id, code) ==
    LET matching == {v \in verification_codes :
                        v.user_id = user_id /\ v.code = code /\ ~v.used}
    IN  IF matching = {}
        THEN {[is_valid |-> FALSE, verification_codes |-> verification_codes]}
        ELSE {IF ~is_valid(verification)
              THEN [is_valid |-> FALSE, verification_codes |-> verification_codes]
              ELSE [is_valid |-> TRUE,
                    verification_codes |->
                        (verification_codes \ {verification})
                        \cup {[verification EXCEPT !.used = TRUE]}] :
              verification \in matching}

\* POST /api/auth/verify-login
verify_login(body) ==
    LET reject(error, status) ==
            {[response |-> error_response(error, status),
              verification_codes |-> verification_codes]}
        data == body[1]
        found == {u \in users : u.user_id = data.user_id[1]}
    IN  IF body = None THEN reject("EMPTY_BODY", 400)
        ELSE IF ~validate_required_fields(data, <<"user_id", "code">>)
        THEN reject("MISSING_FIELD", 400)
        ELSE IF found = {} THEN reject("USER_NOT_FOUND", 404)
        ELSE {IF ~checked.is_valid
              THEN [response |-> error_response("INVALID_CODE", 400),
                    verification_codes |-> checked.verification_codes]
              ELSE LET user == CHOOSE u \in found : TRUE
                   IN  [response |-> success_response(
                                         [user_id |-> user.user_id,
                                          username |-> user.username,
                                          email |-> user.email,
                                          token |-> generate_jwt_token(user.user_id),
                                          token_expires_in |-> 86400], 200),
                        verification_codes |-> checked.verification_codes] :
              checked \in verify_code(data.user_id[1], data.code[1])}

\* POST /api/auth/resend-code, served alone
resend_verification_code(body, code) ==
    LET reject(error, status) ==
            [response |-> error_response(error, status),
             verification_codes |-> verification_codes]
        found == {u \in users : u.user_id = body[1].user_id[1]}
    IN  IF body = None THEN reject("EMPTY_BODY", 400)
        ELSE IF body[1].user_id = None THEN reject("MISSING_FIELD", 400)
        ELSE IF found = {} THEN reject("USER_NOT_FOUND", 404)
        ELSE LET user == CHOOSE u \in found : TRUE
             IN  [response |-> success_response(
                                   [email_hint |-> EmailHint(user.email),
                                    expires_in_seconds |-> 600], 200),
                  verification_codes |-> create_verification_entry(user.user_id, code)]

MaxSessions == 2
MaxAnswers == 3

\* a login or resend-code request arrives.  One that fails validation is
\* answered at once; otherwise create_verification_entry reads the user's
\* unused codes (existing_codes) and the request stays in flight.
StartCode ==
    \E code \in {"123456", "654321"},
       req \in [endpoint : {"login"},
                body : {Some([username |-> Some(String(<<"a","l","i","c","e">>)),
                              password |-> Some(String(password))]) :
                           password \in {<<"P","a","s","s","w","0","r","d","X">>,
                                         <<"W","r","o","n","g","1","2","3","4">>}}]
               \cup [endpoint : {"resend_code"},
                     body : {Some([user_id |-> Some(2)]), Some([user_id |-> Some(3)])}] :
        LET result == IF req.endpoint = "login" THEN login(req.body, code)
                      ELSE resend_verification_code(req.body, code)
            user_id == IF req.endpoint = "login" THEN result.response.data.user_id
                       ELSE req.body[1].user_id[1]
        IN  /\ request_count < MaxAnswers
            /\ IF result.response.status # 200
               THEN /\ http_request' = req
                    /\ http_response' = result.response
                    /\ request_count' = request_count + 1
                    /\ UNCHANGED sessions
               ELSE /\ Cardinality(sessions) < MaxSessions
                    /\ sessions' = sessions \cup
                           {[request |-> req, response |-> result.response,
                             user_id |-> user_id, code |-> code,
                             existing_codes |->
                                 {v.code_id : v \in {v \in verification_codes :
                                                  v.user_id = user_id /\ ~v.used}}]}
                    /\ UNCHANGED <<http_request, http_response, request_count>>
            /\ UNCHANGED <<pc, image, recognized, nutrition_api_key, request, nutrition,
                           meal_vars, meals, meal_items, users, verification_codes, workouts,
                           workout_exercises>>

\* a request in flight finishes create_verification_entry: the codes it read
\* are marked used, its new code is inserted, and the response is sent
FinishCode ==
    \E s \in sessions :
        /\ request_count < MaxAnswers
        /\ Cardinality(verification_codes) < MaxCodes
        /\ verification_codes' =
               {IF v.code_id \in s.existing_codes THEN [v EXCEPT !.used = TRUE] ELSE v :
                   v \in verification_codes}
               \cup {[code_id |-> NewId({v.code_id : v \in verification_codes}),
                      user_id |-> s.user_id, code |-> s.code, used |-> FALSE,
                      expired |-> FALSE]}
        /\ sessions' = sessions \ {s}
        /\ http_request' = s.request
        /\ http_response' = s.response
        /\ request_count' = request_count + 1
        /\ UNCHANGED <<pc, image, recognized, nutrition_api_key, request, nutrition,
                       meal_vars, meals, meal_items, users, workouts, workout_exercises>>

VerifyLogin ==
    \E req \in [endpoint : {"verify_login"},
                body : {None} \cup
                       {Some(data) : data \in
                           [user_id : {Some(1), Some(2)},
                            code : {Some("123456"), Some("654321")}]
                           \cup {[user_id |-> Some(3), code |-> Some("123456")],
                                 [user_id |-> Some(1), code |-> None]}}] :
        \E result \in verify_login(req.body) :
            /\ request_count < MaxAnswers
            /\ http_request' = req
            /\ http_response' = result.response
            /\ verification_codes' = result.verification_codes
            /\ request_count' = request_count + 1
            /\ UNCHANGED <<pc, image, recognized, nutrition_api_key, request, nutrition,
                           meal_vars, meals, meal_items, users, workouts, workout_exercises, sessions>>

\* ten minutes after it was created the oldest code that is still running expires
ExpireCode ==
    \E v \in verification_codes :
        /\ ~v.expired
        /\ \A w \in verification_codes : w.code_id < v.code_id => w.expired
        /\ verification_codes' =
               (verification_codes \ {v}) \cup {[v EXCEPT !.expired = TRUE]}
        /\ UNCHANGED <<pc, image, recognized, nutrition_api_key, request, nutrition,
                       meal_vars, meals, meal_items, users, workouts, workout_exercises, http_request,
                       http_response, request_count, sessions>>

SpecVerify ==
    InitApi(RegisteredUsers)
    /\ [][StartCode \/ FinishCode \/ VerifyLogin \/ ExpireCode]_vars

(***************************************************************************)
(* HTTP API: app/routes/meals.py.  Calories and grams are in tenths.  A    *)
(* handler yields the set of outcomes it can have (the lookups round, and  *)
(* a tie can go either way), each the response and the two tables after.   *)
(* The service has no nutrition API key, as InitApi sets it.               *)
(***************************************************************************)
MEAL_TYPES == {"breakfast", "lunch", "dinner", "snack"}

\* a return before anything is committed
NoMealCommit(response) ==
    {[response |-> response, meals |-> meals, meal_items |-> meal_items]}

\* POST /api/meals; data.items is a sequence of items, empty when the key is
\* missing; meal_date is valid when it is of the form YYYY-MM-DD
create_meal(token_user_id, data) ==
    LET items_data == data.items
        Provided(item) == /\ item.calories # None /\ item.calories[1] # 0
                          /\ item.protein_g # None /\ item.protein_g[1] # 0
        Number0(value) == IF value = None THEN 0 ELSE value[1]
        \* the entries of meal_items that one item of the request gives
        Entries(item) ==
            LET quantity == IF item.quantity = None THEN 100 ELSE item.quantity[1]
                quantity_unit == IF item.quantity_unit = None THEN "g"
                                 ELSE item.quantity_unit[1]
                nutritions ==
                    IF Provided(item)
                    THEN {[calories |-> item.calories[1], protein_g |-> item.protein_g[1],
                           carbs_g |-> Number0(item.carbs_g),
                           fats_g |-> Number0(item.fats_g)]}
                    ELSE GetNutritionForFood(item.food_name, Some(quantity),
                                             Some(quantity_unit), nutrition_api_key,
                                             [kind |-> "no_foods"])
            IN  {[food_name |-> item.food_name, quantity |-> quantity,
                  quantity_unit |-> quantity_unit, calories |-> n.calories,
                  protein_g |-> n.protein_g, carbs_g |-> n.carbs_g,
                  fats_g |-> n.fats_g] : n \in nutritions}
        \* the lists meal_items can be after the first n items of the request
        Lists[n \in 0..Len(items_data)] ==
            IF n = 0 THEN {<<>>}
            ELSE IF items_data[n].food_name = <<>> THEN Lists[n - 1]
            ELSE {Append(list, entry) :
                      list \in Lists[n - 1], entry \in Entries(items_data[n])}
        Total(list, field) == Sum([i \in 1..Len(list) |-> list[i][field]])
        meal_id == NewId({m.meal_id : m \in meals})
        last_item_id == IF meal_items = {} THEN 0
                        ELSE CHOOSE n \in {i.meal_item_id : i \in meal_items} :
                                 \A i \in meal_items : i.meal_item_id <= n
        Meal(list) ==
            [meal_id |-> meal_id,
             user_id |-> token_user_id,
             meal_type |-> Str(Lower(data.meal_type[1])),
             meal_date |-> data.meal_date[1],
             total_calories |-> IF items_data # <<>> THEN Total(list, "calories")
                                ELSE Number0(data.total_calories),
             protein_g |-> IF items_data # <<>> THEN Total(list, "protein_g")
                           ELSE Number0(data.protein_g),
             carbs_g |-> IF items_data # <<>> THEN Total(list, "carbs_g")
                         ELSE Number0(data.carbs_g),
             fats_g |-> IF items_data # <<>> THEN Total(list, "fats_g")
                        ELSE Number0(data.fats_g)]
        Rows(list) ==
            {list[i] @@ [meal_item_id |-> last_item_id + i, meal_id |-> meal_id] :
                 i \in 1..Len(list)}
    IN  IF data.meal_type = None \/ data.meal_date = None
        THEN NoMealCommit(error_response("VALIDATION_ERROR", 422))
        ELSE IF data.meal_date[1] \notin {"2026-01-11", "2026-01-12"}
        THEN NoMealCommit(error_response("VALIDATION_ERROR", 422))
        ELSE {[response |-> success_response(Meal(list) @@ [items |-> Rows(list)], 201),
               meals |-> meals \cup {Meal(list)},
               meal_items |-> meal_items \cup Rows(list)] :
              list \in Lists[Len(items_data)]}

\* POST /api/meals/<meal_id>/add-item; the entry takes its protein, carbs and
\* fats from the keys 'protein', 'carbs' and 'fats' of the nutrition record,
\* which has none of them (its keys end in _g), so they are 0.  The meal is
\* not written.
add_item_to_meal(token_user_id, meal_id, body) ==
    LET found == {m \in meals : m.meal_id = meal_id}
        food_name == IF body = None THEN <<>>
                     ELSE IF body[1].food_name = None THEN <<>>
                     ELSE Strip(body[1].food_name[1])
        quantity == IF body = None THEN 100
                    ELSE IF body[1].quantity = None THEN 100 ELSE body[1].quantity[1]
        quantity_unit == IF body = None THEN "g"
                         ELSE IF body[1].quantity_unit = None THEN "g"
                         ELSE body[1].quantity_unit[1]
    IN  IF found = {} THEN NoMealCommit(error_response("NOT_FOUND", 404))
        ELSE IF \E m \in found : m.user_id # token_user_id
        THEN NoMealCommit(error_response("FORBIDDEN", 403))
        ELSE IF food_name = <<>>
        THEN NoMealCommit(error_response("BAD_REQUEST", 400))
        ELSE {LET meal_item ==
                      [meal_item_id |-> NewId({i.meal_item_id : i \in meal_items}),
                       meal_id |-> meal_id,
                       food_name |-> food_name,
                       quantity |-> quantity,
                       quantity_unit |-> quantity_unit,
                       calories |-> nutrition_record.calories,
                       protein_g |-> 0,
                       carbs_g |-> 0,
                       fats_g |-> 0]
              IN  [response |-> success_response("Item added successfully", 201),
                   meals |-> meals,
                   meal_items |-> meal_items \cup {meal_item}] :
              nutrition_record \in
                  GetNutritionForFood(food_name, Some(quantity), Some(quantity_unit),
                                      nutrition_api_key, [kind |-> "no_foods"])}

\* PUT /api/meals/<meal_id>; a field assigned before a later field is
\* rejected is never committed
update_meal(token_user_id, meal_id, data) ==
    LET found == {m \in meals : m.meal_id = meal_id}
        meal == CHOOSE m \in found : TRUE
        Invalid(value) == value # None /\ value[1] <= 0
        Or(value, old) == IF value = None THEN old ELSE value[1]
        updated == [meal EXCEPT !.meal_type = Or(data.meal_type, @),
                                !.total_calories = Or(data.total_calories, @),
                                !.protein_g = Or(data.protein_g, @),
                                !.carbs_g = Or(data.carbs_g, @),
                                !.fats_g = Or(data.fats_g, @)]
    IN  IF found = {} THEN NoMealCommit(error_response("NOT_FOUND", 404))
        ELSE IF meal.user_id # token_user_id
        THEN NoMealCommit(error_response("FORBIDDEN", 403))
        ELSE IF data.meal_type # None /\ data.meal_type[1] \notin MEAL_TYPES
        THEN NoMealCommit(error_response("VALIDATION_ERROR", 422))
        ELSE IF \/ Invalid(data.total_calories) \/ Invalid(data.protein_g)
                \/ Invalid(data.carbs_g) \/ Invalid(data.fats_g)
        THEN NoMealCommit(error_response("VALIDATION_ERROR", 422))
        ELSE {[response |-> success_response(
                                updated @@ [items |-> {i \in meal_items :
                                                          i.meal_id = meal_id}], 200),
               meals |-> (meals \ {meal}) \cup {updated},
               meal_items |-> meal_items]}

\* the decorators of a route of app/routes/meals.py around fn: validate_json,
\* where the route has it, then token_required
MealRoute(req, json, fn) ==
    IF json /\ req.body = None
    THEN NoMealCommit(error_response("VALIDATION_ERROR", 422))
    ELSE IF req.authorization \in BadAuthorizations
    THEN NoMealCommit(error_response("UNAUTHORIZED", 401))
    ELSE fn

MaxMeals == 2
MaxMealItems == 3

\* the request is recorded with its answer, and the outcome is committed
HandleMeal(endpoint, req, result) ==
    /\ request_count < MaxRequests
    /\ Cardinality(result.meals) <= MaxMeals
    /\ Cardinality(result.meal_items) <= MaxMealItems
    /\ request_count' = request_count + 1
    /\ http_request' = [endpoint |-> endpoint, request |-> req]
    /\ http_response' = result.response
    /\ meals' = result.meals
    /\ meal_items' = result.meal_items
    /\ UNCHANGED <<pc, image, recognized, nutrition_api_key, request, nutrition,
                   meal_vars, users, verification_codes, workouts, workout_exercises,
                   sessions>>

CreateMeal ==
    \E req \in
        LET Item(food_name, quantity) ==
                [food_name |-> food_name, quantity |-> quantity,
                 quantity_unit |-> Some("g"), calories |-> None, protein_g |-> None,
                 carbs_g |-> None, fats_g |-> None]
            Scanned == [food_name |-> <<"t","a","j","i","n","e">>, quantity |-> Some(250),
                        quantity_unit |-> Some("g"), calories |-> Some(4205),
                        protein_g |-> Some(283), carbs_g |-> Some(301),
                        fats_g |-> None]
            Body(meal_type, meal_date, items, total_calories) ==
                Some([meal_type |-> meal_type, meal_date |-> meal_date, items |-> items,
                      total_calories |-> total_calories, protein_g |-> None,
                      carbs_g |-> None, fats_g |-> None])
        IN  [authorization : GoodAuthorizations,
             body : {Body(Some(<<"L","u","n","c","h">>), Some("2026-01-11"),
                          <<Item(<<"M","i","l","k">>, Some(150)),
                            Item(<<"z","l","a","b","i","a">>, None)>>, None),
                     Body(Some(<<"s","n","a","c","k">>), Some("2026-01-12"),
                          <<Scanned, Item(<<>>, Some(50))>>, Some(9990))}]
            \cup [authorization : {Some(generate_jwt_token(1))},
                  body : {None,
                          Body(Some(<<"d","i","n","n","e","r">>), Some("2026-01-12"),
                               <<>>, Some(7000)),
                          Body(Some(<<"d","i","n","n","e","r">>), Some("12/01/2026"),
                               <<>>, None),
                          Body(None, Some("2026-01-12"), <<>>, None)}]
            \cup [authorization : BadAuthorizations,
                  body : {Body(Some(<<"s","n","a","c","k">>), Some("2026-01-12"),
                               <<>>, None)}] :
        \E result \in MealRoute(req, TRUE,
                          create_meal(req.authorization[1].sub, req.body[1])) :
            HandleMeal("create_meal", req, result)

AddItem ==
    \E req \in
        LET Body(food_name, quantity) ==
                Some([food_name |-> food_name, quantity |-> quantity,
                      quantity_unit |-> None])
        IN  [authorization : GoodAuthorizations, meal_id : 1..MaxMeals,
             body : {Body(Some(<<" ","R","i","c","e"," ">>), Some(150))}]
            \cup [authorization : {Some(generate_jwt_token(1))}, meal_id : {1},
                  body : {None, Body(Some(<<" ">>), None),
                          Body(Some(<<"f","i","g","s">>), None)}]
            \cup [authorization : BadAuthorizations, meal_id : {1},
                  body : {Body(Some(<<"r","i","c","e">>), None)}] :
        \E result \in MealRoute(req, FALSE,
                          add_item_to_meal(req.authorization[1].sub, req.meal_id,
                                           req.body)) :
            HandleMeal("add_item_to_meal", req, result)

UpdateMeal ==
    \E req \in
        LET Body(meal_type, total_calories, protein_g) ==
                Some([meal_type |-> meal_type, total_calories |-> total_calories,
                      protein_g |-> protein_g, carbs_g |-> None, fats_g |-> None])
        IN  [authorization : GoodAuthorizations, meal_id : 1..MaxMeals,
             body : {Body(Some("dinner"), None, None), Body(None, Some(7000), Some(500))}]
            \cup [authorization : {Some(generate_jwt_token(1))}, meal_id : {1},
                  body : {None, Body(Some("brunch"), None, None),
                          Body(None, Some(7000), Some(0))}]
            \cup [authorization : BadAuthorizations, meal_id : {1},
                  body : {Body(Some("dinner"), None, None)}] :
        \E result \in MealRoute(req, TRUE,
                          update_meal(req.authorization[1].sub, req.meal_id,
                                      req.body[1])) :
            HandleMeal("update_meal", req, result)

SpecMeals == InitApi(RegisteredUsers) /\ [][CreateMeal \/ AddItem \/ UpdateMeal]_vars
(***************************************************************************)
(* Recognition calls.  The image of a call is drawn from one of two        *)
(* bounded families: images given pixel by pixel (NumRuns runs of palette  *)
(* colours filling the 50 x 50 sample), and images given by their pixel    *)
(* statistics (at most MaxColours non-empty buckets, each holding a        *)
(* multiple of 5 % of the sample, a mean brightness, a size).  The second  *)
(* family does not tie the brightness to the colours, so it holds every    *)
(* statistics an image can have at this granularity, and more.             *)
(***************************************************************************)
ResizedPixels == 50 * 50

NumRuns == 3
MaxColours == 2

\* a colour inside each bucket, colours on the edges of the rules, colours
\* meeting the tests of two buckets, and colours meeting none
Palette ==
    {<<255, 255, 255>>, <<201, 201, 201>>, <<200, 200, 200>>,
     <<230, 200, 190>>, <<220, 180, 120>>, <<220, 170, 100>>,
     <<40, 120, 40>>, <<61, 61, 61>>, <<200, 120, 50>>, <<190, 100, 50>>,
     <<200, 60, 60>>, <<220, 180, 60>>, <<100, 80, 50>>,
     <<10, 10, 10>>, <<30, 30, 200>>}

ImageSizes == {<<1, 2>>, <<7, 10>>, <<4, 3>>}
BrightnessLevels == {70, 90, 110, 130, 160, 210}
PercentLevels == {5, 10, 15, 20, 25, 30, 35}

BucketOrder == <<"white", "cream", "beige", "green", "orange", "red", "yellow", "brown">>

RunLength(i) ==
    (ResizedPixels \div NumRuns) + (IF i <= ResizedPixels % NumRuns THEN 1 ELSE 0)

PixelImages ==
    {[pixels |-> [i \in 1..NumRuns |-> [rgb |-> colours[i], n |-> RunLength(i)]],
      width |-> size[1], height |-> size[2]] :
        colours \in [1..NumRuns -> Palette], size \in ImageSizes}

\* the statistics of an image with pct[k] percent of its pixels in each bucket
\* k of DOMAIN pct, none in the other buckets, and the given mean brightness
Statistics(pct, level) ==
    [num_pixels |-> ResizedPixels,
     total_rgb  |-> level * 3 * ResizedPixels,
     count |-> [k \in Buckets |->
                  IF k \in DOMAIN pct THEN (pct[k] * ResizedPixels) \div 100 ELSE 0]]

InitService ==
    /\ pc = "ready"
    /\ recognized = None
    /\ nutrition_api_key = ""
    /\ request = None
    /\ nutrition = None
    /\ MealIdle
    /\ ApiIdle

InitPixels ==
    /\ image \in PixelImages
    /\ InitService

InitStatistics ==
    /\ \E colours \in SUBSET Buckets :
          /\ Cardinality(colours) <= MaxColours
          /\ \E pct \in [colours -> PercentLevels], level \in BrightnessLevels,
                size \in ImageSizes :
                /\ Sum([i \in 1..8 |-> Statistics(pct, level).count[BucketOrder[i]]])
                     <= ResizedPixels
                /\ image = [statistics |-> Statistics(pct, level),
                            width |-> size[1], height |-> size[2]]
    /\ InitService

\* _mock_food_recognition(image_path) on a readable image
RecognizeImage ==
    /\ pc = "ready"
    /\ pc' = "returned"
    /\ recognized' = MockFoodRecognition(image)
    /\ UNCHANGED <<image, nutrition_api_key, request, nutrition, meal_vars, api_vars>>

SpecPixels == InitPixels /\ [][RecognizeImage]_vars

\* the same call on an image known by its statistics
RecognizeStatistics ==
    /\ pc = "ready"
    /\ pc' = "returned"
    /\ recognized' = ClassifyStatistics(image.statistics, image.width, image.height)
    /\ UNCHANGED <<image, nutrition_api_key, request, nutrition, meal_vars, api_vars>>

SpecStatistics == InitStatistics /\ [][RecognizeStatistics]_vars


(***************************************************************************)
(* One pixel of the resized image.  Channels holds, for every comparison   *)
(* of the chain, values on both sides of it and on its edge.               *)
(***************************************************************************)
Channels ==
    {0, 40, 41, 60, 61, 80, 81, 95, 96, 100, 101, 120, 121, 130, 150, 151, 155,
     160, 161, 170, 171, 175, 180, 181, 190, 200, 201, 210, 255}

InitPixel ==
    /\ image \in Channels \X Channels \X Channels
    /\ InitService

\* one pass of the loop "for r, g, b in pixels" of _mock_food_recognition
ClassifyPixel ==
    /\ pc = "ready"
    /\ pc' = "returned"
    /\ recognized' = PixelBuckets(image[1], image[2], image[3])
    /\ UNCHANGED <<image, nutrition_api_key, request, nutrition, meal_vars, api_vars>>

SpecPixel == InitPixel /\ [][ClassifyPixel]_vars

(***************************************************************************)
(* app/services/equipment_classifier.py.  Confidences are in hundredths.   *)
(* The CLIP model is not modelled: analyze_image_with_ml yields any of the *)
(* results it can return.                                                  *)
(***************************************************************************)
\* GYM_EQUIPMENT_DATABASE in the order of the dict: key, display_name, keywords
GYM_EQUIPMENT_DATABASE ==
    <<
     [key |-> "barbell", display_name |-> "Barbell",
      keywords |->
          <<<<"b", "a", "r", "b", "e", "l", "l">>,
            <<"b", "a", "r">>,
            <<"o", "l", "y", "m", "p", "i", "c">>,
            <<"w", "e", "i", "g", "h", "t", " ", "b", "a", "r">>,
            <<"s", "t", "r", "a", "i", "g", "h", "t", " ", "b", "a", "r">>>>],
     [key |-> "dumbbell", display_name |-> "Dumbbell",
      keywords |->
          <<<<"d", "u", "m", "b", "b", "e", "l", "l">>,
            <<"d", "u", "m", "b", "e", "l", "l">>,
            <<"d", "b">>,
            <<"f", "r", "e", "e", " ", "w", "e", "i", "g", "h", "t">>,
            <<"h", "a", "n", "d", " ", "w", "e", "i", "g", "h", "t">>>>],
     [key |-> "bench", display_name |-> "Bench Press Station",
      keywords |->
          <<<<"b", "e", "n", "c", "h">>,
            <<"b", "e", "n", "c", "h", " ", "p", "r", "e", "s", "s">>,
            <<"f", "l", "a", "t", " ", "b", "e", "n", "c", "h">>,
            <<"i", "n", "c", "l", "i", "n", "e">>,
            <<"d", "e", "c", "l", "i", "n", "e">>>>],
     [key |-> "squat_rack", display_name |-> "Squat Rack / Power Rack",
      keywords |->
          <<<<"s", "q", "u", "a", "t", " ", "r", "a", "c", "k">>,
            <<"p", "o", "w", "e", "r", " ", "r", "a", "c", "k">>,
            <<"c", "a", "g", "e">>,
            <<"s", "q", "u", "a", "t">>,
            <<"r", "a", "c", "k">>>>],
     [key |-> "cable_machine", display_name |-> "Cable Machine",
      keywords |->
          <<<<"c", "a", "b", "l", "e">>,
            <<"p", "u", "l", "l", "e", "y">>,
            <<"c", "a", "b", "l", "e", " ", "c", "r", "o", "s", "s", "o", "v", "e", "r">>,
            <<"f", "u", "n", "c", "t", "i", "o", "n", "a", "l", " ", "t", "r", "a", "i", "n", "e", "r">>>>],
     [key |-> "treadmill", display_name |-> "Treadmill",
      keywords |->
          <<<<"t", "r", "e", "a", "d", "m", "i", "l", "l">>,
            <<"r", "u", "n", "n", "i", "n", "g", " ", "m", "a", "c", "h", "i", "n", "e">>,
            <<"c", "a", "r", "d", "i", "o">>,
            <<"r", "u", "n">>>>],
     [key |-> "elliptical", display_name |-> "Elliptical Machine",
      keywords |->
          <<<<"e", "l", "l", "i", "p", "t", "i", "c", "a", "l">>,
            <<"c", "r", "o", "s", "s", " ", "t", "r", "a", "i", "n", "e", "r">>,
            <<"e", "l", "l", "i", "p", "t", "i", "c", "a", "l", " ", "t", "r", "a", "i", "n", "e", "r">>>>],
     [key |-> "rowing_machine", display_name |-> "Rowing Machine",
      keywords |->
          <<<<"r", "o", "w", "i", "n", "g">>,
            <<"r", "o", "w", "e", "r">>,
            <<"e", "r", "g">>,
            <<"e", "r", "g", "o", "m", "e", "t", "e", "r">>,
            <<"r", "o", "w", " ", "m", "a", "c", "h", "i", "n", "e">>>>],
     [key |-> "stationary_bike", display_name |-> "Stationary Bike",
      keywords |->
          <<<<"b", "i", "k", "e">>,
            <<"c", "y", "c", "l", "e">>,
            <<"s", "t", "a", "t", "i", "o", "n", "a", "r", "y", " ", "b", "i", "k", "e">>,
            <<"s", "p", "i", "n">>,
            <<"c", "y", "c", "l", "i", "n", "g">>>>],
     [key |-> "kettlebell", display_name |-> "Kettlebell",
      keywords |->
          <<<<"k", "e", "t", "t", "l", "e", "b", "e", "l", "l">>,
            <<"k", "b">>,
            <<"k", "e", "t", "t", "l", "e", " ", "b", "e", "l", "l">>>>],
     [key |-> "pull_up_bar", display_name |-> "Pull-up Bar",
      keywords |->
          <<<<"p", "u", "l", "l", " ", "u", "p">>,
            <<"p", "u", "l", "l", "u", "p">>,
            <<"c", "h", "i", "n", " ", "u", "p">>,
            <<"c", "h", "i", "n", "u", "p">>,
            <<"b", "a", "r">>,
            <<"h", "o", "r", "i", "z", "o", "n", "t", "a", "l", " ", "b", "a", "r">>>>],
     [key |-> "dip_bars", display_name |-> "Dip Bars / Parallel Bars",
      keywords |->
          <<<<"d", "i", "p">>,
            <<"d", "i", "p", "s">>,
            <<"p", "a", "r", "a", "l", "l", "e", "l", " ", "b", "a", "r", "s">>,
            <<"d", "i", "p", " ", "s", "t", "a", "t", "i", "o", "n">>,
            <<"d", "i", "p", " ", "b", "a", "r">>>>],
     [key |-> "leg_press", display_name |-> "Leg Press Machine",
      keywords |->
          <<<<"l", "e", "g", " ", "p", "r", "e", "s", "s">>,
            <<"p", "r", "e", "s", "s">>,
            <<"l", "e", "g", " ", "m", "a", "c", "h", "i", "n", "e">>>>],
     [key |-> "smith_machine", display_name |-> "Smith Machine",
      keywords |->
          <<<<"s", "m", "i", "t", "h">>,
            <<"s", "m", "i", "t", "h", " ", "m", "a", "c", "h", "i", "n", "e">>,
            <<"g", "u", "i", "d", "e", "d", " ", "b", "a", "r", "b", "e", "l", "l">>>>],
     [key |-> "resistance_band", display_name |-> "Resistance Bands",
      keywords |->
          <<<<"r", "e", "s", "i", "s", "t", "a", "n", "c", "e", " ", "b", "a", "n", "d">>,
            <<"b", "a", "n", "d">>,
            <<"e", "l", "a", "s", "t", "i", "c">>,
            <<"t", "u", "b", "e">>>>],
     [key |-> "yoga_mat", display_name |-> "Yoga Mat / Floor Exercises",
      keywords |->
          <<<<"m", "a", "t">>,
            <<"y", "o", "g", "a">>,
            <<"f", "l", "o", "o", "r">>,
            <<"b", "o", "d", "y", "w", "e", "i", "g", "h", "t">>>>],
     [key |-> "medicine_ball", display_name |-> "Medicine Ball",
      keywords |->
          <<<<"m", "e", "d", "i", "c", "i", "n", "e", " ", "b", "a", "l", "l">>,
            <<"m", "e", "d", " ", "b", "a", "l", "l">>,
            <<"s", "l", "a", "m", " ", "b", "a", "l", "l">>,
            <<"w", "a", "l", "l", " ", "b", "a", "l", "l">>>>],
     [key |-> "lat_pulldown", display_name |-> "Lat Pulldown Machine",
      keywords |->
          <<<<"l", "a", "t">>,
            <<"p", "u", "l", "l", "d", "o", "w", "n">>,
            <<"l", "a", "t", " ", "p", "u", "l", "l", "d", "o", "w", "n">>,
            <<"l", "a", "t", " ", "m", "a", "c", "h", "i", "n", "e">>>>]
    >>

\* analyze_filename(filename)
analyze_filename(filename) ==
    LET filename_lower == Lower(filename)
        Matches(i) ==
            \E j \in 1..Len(GYM_EQUIPMENT_DATABASE[i].keywords) :
                Contains(filename_lower, GYM_EQUIPMENT_DATABASE[i].keywords[j])
        matching == {i \in 1..Len(GYM_EQUIPMENT_DATABASE) : Matches(i)}
    IN  IF matching = {} THEN [match |-> None, confidence |-> 0]
        ELSE [match |-> Some(GYM_EQUIPMENT_DATABASE[
                                 CHOOSE i \in matching : \A k \in matching : i <= k].key),
              confidence |-> 75]

\* what analyze_image_with_ml(filepath) can return: (None, 0.0) when the model
\* is not available or fails, else the key of the best description and its
\* probability, which is above 0
analyze_image_with_ml ==
    {[match |-> None, confidence |-> 0]}
    \cup [match : {Some(GYM_EQUIPMENT_DATABASE[i].key) :
                       i \in 1..Len(GYM_EQUIPMENT_DATABASE)},
          confidence : {3, 50, 74, 75, 76, 99}]

\* classify_equipment with "ml_conf >= best_confidence"
classify_equipment_ml_on_tie(filename, ml) ==
    LET by_name == analyze_filename(filename)
        first == IF by_name.match # None /\ by_name.confidence > 0
                 THEN by_name ELSE [match |-> None, confidence |-> 0]
        best == IF ml.match # None /\ ml.confidence >= first.confidence
                THEN ml ELSE first
        final == IF best.match = None THEN [match |-> Some("dumbbell"), confidence |-> 50]
                 ELSE best
        equipment_data == {i \in 1..Len(GYM_EQUIPMENT_DATABASE) :
                              GYM_EQUIPMENT_DATABASE[i].key = final.match[1]}
    IN  [equipment_key |-> final.match[1],
         confidence |-> final.confidence,
         display_name |-> IF equipment_data = {} THEN "Unknown Equipment"
                          ELSE GYM_EQUIPMENT_DATABASE[
                                   CHOOSE i \in equipment_data : TRUE].display_name]

\* classify_equipment(filepath, filename), ml being what
\* analyze_image_with_ml(filepath) returns
classify_equipment(filename, ml) ==
    LET by_name == analyze_filename(filename)
        first == IF by_name.match # None /\ by_name.confidence > 0
                 THEN by_name ELSE [match |-> None, confidence |-> 0]
        best == IF ml.match # None /\ ml.confidence > first.confidence
                THEN ml ELSE first
        final == IF best.match = None THEN [match |-> Some("dumbbell"), confidence |-> 50]
                 ELSE best
        equipment_data == {i \in 1..Len(GYM_EQUIPMENT_DATABASE) :
                              GYM_EQUIPMENT_DATABASE[i].key = final.match[1]}
    IN  [equipment_key |-> final.match[1],
         confidence |-> final.confidence,
         display_name |-> IF equipment_data = {} THEN "Unknown Equipment"
                          ELSE GYM_EQUIPMENT_DATABASE[
                                   CHOOSE i \in equipment_data : TRUE].display_name]

\* names of uploaded files: with one keyword, with keywords of several
\* equipments, in upper case, with none, empty
Filenames ==
    {<<"b", "a", "r", "b", "e", "l", "l", ".", "j", "p", "g">>,
     <<"D", "u", "m", "b", "b", "e", "l", "l", "_", "R", "a", "c", "k", ".", "P", "N", "G">>,
     <<"p", "u", "l", "l", " ", "u", "p", " ", "b", "a", "r", ".", "j", "p", "g">>,
     <<"I", "M", "G", "_", "0", "0", "4", "2", ".", "j", "p", "g">>,
     <<"y", "o", "g", "a", " ", "m", "a", "t", ".", "j", "p", "e", "g">>,
     <<"K", "B", ".", "p", "n", "g">>,
     <<"m", "y", " ", "g", "y", "m", " ", "p", "h", "o", "t", "o", ".", "p", "n", "g">>,
     <<"l", "a", "t", ".", "j", "p", "g">>,
     <<"t", "r", "e", "a", "d", "m", "i", "l", "l", ".", "j", "p", "g">>,
     <<>>}

InitEquipment ==
    /\ image \in [filename : Filenames, ml : analyze_image_with_ml]
    /\ InitService

ClassifyEquipment ==
    /\ pc = "ready"
    /\ pc' = "returned"
    /\ recognized' = classify_equipment(image.filename, image.ml)
    /\ UNCHANGED <<image, nutrition_api_key, request, nutrition, meal_vars, api_vars>>

SpecEquipment == InitEquipment /\ [][ClassifyEquipment]_vars

(***************************************************************************)
(* analyze_meal on lists of items                                          *)
(***************************************************************************)
MaxItems == 3

\* items as the callers build them: "food_name" or "name", an optional
\* quantity and unit; response is what the USDA API does if it is asked
MealItems ==
    {[food_name |-> Some(<<"r","i","c","e">>), name |-> None, quantity |-> Some(150),
      unit |-> Some("g"), response |-> [kind |-> "timeout"]],
     [food_name |-> Some(<<" "," ","C","h","i","c","k","e","n"," ","B","r","e","a","s","t"," ">>),
      name |-> None, quantity |-> Some(300), unit |-> Some("g"),
      response |-> [kind |-> "timeout"]],
     [food_name |-> Some(<<"M","i","l","k">>), name |-> None, quantity |-> None,
      unit |-> None, response |-> [kind |-> "timeout"]],
     [food_name |-> Some(<<"M","i","l","k">>), name |-> None, quantity |-> Some(-50),
      unit |-> None, response |-> [kind |-> "timeout"]],
     [food_name |-> Some(<<"f","i","g","s">>), name |-> None, quantity |-> Some(33),
      unit |-> None, response |-> [kind |-> "no_foods"]],
     [food_name |-> Some(<<"z","l","a","b","i","a">>), name |-> None, quantity |-> Some(150),
      unit |-> None, response |-> [kind |-> "http_error"]],
     [food_name |-> Some(<<"z","l","a","b","i","a">>), name |-> None, quantity |-> Some(0),
      unit |-> None,
      response |-> [kind |-> "ok", description |-> None, nutrients |-> ("Energy" :> 26450)]],
     [food_name |-> None, name |-> Some(<<"t","u","n","a">>), quantity |-> Some(100),
      unit |-> Some("g"), response |-> [kind |-> "bad_json"]],
     [food_name |-> Some(<<>>), name |-> Some(<<"t","u","n","a">>), quantity |-> None,
      unit |-> None, response |-> [kind |-> "timeout"]],
     [food_name |-> Some(<<>>), name |-> None, quantity |-> Some(100),
      unit |-> Some("g"), response |-> [kind |-> "timeout"]],
     [food_name |-> None, name |-> None, quantity |-> Some(200),
      unit |-> None, response |-> [kind |-> "timeout"]]}

InitMeal ==
    /\ pc = "ready"
    /\ image = None
    /\ recognized = None
    /\ nutrition_api_key \in ApiKeys
    /\ request = None
    /\ nutrition = None
    /\ \E n \in 0..MaxItems : food_items \in [1..n -> MealItems]
    /\ analysis = None
    /\ grams = None
    /\ percentages = None
    /\ module = "meal_service"
    /\ calls = <<>>
    /\ ApiIdle

\* meal_service.analyze_meal(food_items)
AnalyzeMealCall ==
    /\ pc = "ready"
    /\ pc' = "returned"
    /\ analysis' \in AnalyzeMeal(food_items, nutrition_api_key)
    /\ UNCHANGED <<image, recognized, nutrition_api_key, request, nutrition, food_items,
                   grams, percentages, module, calls, api_vars>>

SpecMeal == InitMeal /\ [][AnalyzeMealCall]_vars

(***************************************************************************)
(* calculate_macro_percentages on gram totals                              *)
(***************************************************************************)
\* the gram totals range over 0.0 .. MaxGramTenths / 10
MaxGramTenths == 12

InitMacros ==
    /\ pc = "ready"
    /\ image = None
    /\ recognized = None
    /\ nutrition_api_key = ""
    /\ request = None
    /\ nutrition = None
    /\ food_items = None
    /\ analysis = None
    /\ grams \in [protein : 0..MaxGramTenths, carbs : 0..MaxGramTenths,
                  fats : 0..MaxGramTenths]
    /\ percentages = None
    /\ module = "meal_service"
    /\ calls = <<>>
    /\ ApiIdle

\* calculate_macro_percentages(protein, carbs, fats) of the routes and of
\* nutrition_service, on the same totals
MacroPercentagesCall ==
    /\ pc = "ready"
    /\ pc' = "returned"
    /\ \E r \in CalculateMacroPercentages(grams.protein, grams.carbs, grams.fats),
          s \in ServiceMacroPercentages(grams.protein, grams.carbs, grams.fats) :
          percentages' = [routes |-> r, service |-> s]
    /\ UNCHANGED <<image, recognized, nutrition_api_key, request, nutrition, food_items,
                   analysis, grams, module, calls, api_vars>>

SpecMacros == InitMacros /\ [][MacroPercentagesCall]_vars

(***************************************************************************)
(* recognition of files that are not readable images, and repeated calls   *)
(***************************************************************************)
HashNums == {0, 1, 2, 3, 305419896, 2147483647}

UnreadableImages ==
    {[unreadable |-> why, hash_num |-> h] : why \in {"missing", "corrupt"}, h \in HashNums}

InitImages ==
    /\ image \in PixelImages \cup UnreadableImages
    /\ InitService

SpecImages == InitImages /\ [][RecognizeImage]_vars

MaxCalls == 2

\* the images of one colour, and the unreadable ones
RepeatImages ==
    UnreadableImages \cup
    {img \in PixelImages : \A i \in 1..Len(img.pixels) : img.pixels[i].rgb = img.pixels[1].rgb}

InitRepeat ==
    /\ pc = "ready"
    /\ image \in RepeatImages
    /\ recognized = None
    /\ nutrition_api_key = ""
    /\ request = [food_name |-> <<"c","h","i","c","k","e","n"," ","b","r","e","a","s","t">>,
                  quantity |-> Some(300), unit |-> Some("g"),
                  response |-> [kind |-> "timeout"]]
    /\ nutrition = None
    /\ food_items = None
    /\ analysis = None
    /\ grams = None
    /\ percentages = None
    /\ module \in {"meal_service", "meal_service_v2"}
    /\ calls = <<>>
    /\ ApiIdle

\* one more _mock_food_recognition(image_path) on the same file
RecognizeAgain ==
    /\ Len(calls) < MaxCalls
    /\ recognized' \in (IF module = "meal_service" THEN {MockFoodRecognition(image)}
                        ELSE MockFoodRecognitionV2(image))
    /\ calls' = Append(calls, recognized')
    /\ pc' = "returned"
    /\ UNCHANGED <<image, nutrition_api_key, request, nutrition, food_items, analysis,
                   grams, percentages, module, api_vars>>

\* a get_nutrition_for_food call made between two recognitions
LookupBetween ==
    /\ nutrition = None
    /\ nutrition' \in GetNutritionForFood(request.food_name, request.quantity, request.unit,
                                          nutrition_api_key, request.response)
    /\ UNCHANGED <<pc, image, recognized, nutrition_api_key, request, food_items, analysis,
                   grams, percentages, module, calls, api_vars>>

SpecRepeat == InitRepeat /\ [][RecognizeAgain \/ LookupBetween]_vars
(***************************************************************************)
(* Properties of the recognition.                                          *)
(***************************************************************************)
GrainLabels ==
    {Name.rice, Name.white_rice, Name.brown_rice, Name.pasta, Name.couscous,
     Name.bread, Name.potato, Name.sweet_potato, Name.noodles}

DrinkLabels == {Name.fruit_juice, Name.orange_juice, Name.juice, Name.smoothie, Name.soup}

TallImage == 10 * image.width < 7 * image.height

\* pct of bucket k in the statistics of the image equals p
PctIs(k, p) == image.statistics.count[k] * 100 = p * image.statistics.num_pixels
BrightnessIs(t) == image.statistics.total_rgb = t * 3 * image.statistics.num_pixels

\* C1: the returned candidate list holds at most one candidate with a label of
\* the grain/starch category, and (unless the drink override replaced the list)
\* that candidate is the first grain the colour branch emitted.
AtMostOneGrain ==
    pc = "returned" =>
        LET foods   == recognized.foods
            grains  == {i \in DOMAIN foods : foods[i].name \in GrainLabels}
            emitted == DefaultFoods(image.statistics, SelectFoods(image.statistics))
        IN  /\ Cardinality(grains) <= 1
            /\ ~TallImage =>
                 \A i \in grains :
                    \E j \in DOMAIN emitted :
                        /\ emitted[j].name = foods[i].name
                        /\ emitted[j].confidence = foods[i].confidence
                        /\ \A k \in 1..(j - 1) : emitted[k].name \notin GrainLabels

\* a branch emitted a grain after another food, and the grain is in the result
OneGrainKept ==
    /\ pc = "returned"
    /\ ~TallImage
    /\ Len(recognized.foods) = 2
    /\ recognized.foods[1].name = Name.mloukhia
    /\ recognized.foods[2].name = Name.rice

\* C2: the classifier returns a successful result of 1 to 4 candidates, also
\* when no colour branch's threshold is met.
OneToFourCandidates ==
    pc = "returned" =>
        /\ recognized.success = TRUE
        /\ Len(recognized.foods) >= 1
        /\ Len(recognized.foods) <= 4

\* no colour branch matched and the brightness default supplied the result
DefaultSupplied ==
    /\ pc = "returned"
    /\ ~TallImage
    /\ SelectFoods(image.statistics) = <<>>
    /\ Len(recognized.foods) = 2
    /\ recognized.foods[1].name = Name.pasta

\* C3: for aspect_ratio < 0.7 the result is exactly one candidate with a drink
\* label; for aspect_ratio 0.5, orange 30 % (no other bucket), brightness 160
\* it is orange juice.
TallImageIsOneDrink ==
    (pc = "returned" /\ TallImage) =>
        /\ Len(recognized.foods) = 1
        /\ recognized.foods[1].name \in DrinkLabels
        /\ ( /\ 2 * image.width = image.height
             /\ PctIs("orange", 30)
             /\ \A k \in Buckets \ {"orange"} : PctIs(k, 0)
             /\ BrightnessIs(160) )
           => recognized.foods[1].name = Name.orange_juice

\* scenario E was classified, and a solid-food branch had matched
ScenarioEClassified ==
    /\ pc = "returned"
    /\ 2 * image.width = image.height
    /\ PctIs("orange", 30)
    /\ \A k \in Buckets \ {"orange"} : PctIs(k, 0)
    /\ BrightnessIs(160)
    /\ SelectFoods(image.statistics) # <<>>
    /\ recognized.foods[1].name = Name.orange_juice

\* C4: with green > 20 % and aspect_ratio >= 0.7 the first candidate is
\* mloukhia at 0.92 when brown > 12 % or brightness < 120, and mixed salad at
\* 0.91 otherwise, whatever the other percentages are.
GreenBranchFirst ==
    (pc = "returned" /\ ~TallImage
        /\ image.statistics.count["green"] * 100 > 20 * image.statistics.num_pixels) =>
        LET s == image.statistics
            dark == \/ s.count["brown"] * 100 > 12 * s.num_pixels
                    \/ s.total_rgb < 120 * 3 * s.num_pixels
            first == recognized.foods[1]
        IN  IF dark
            THEN first.name = Name.mloukhia /\ first.confidence = 92
            ELSE first.name = Name.mixed_salad /\ first.confidence = 91

\* scenario B: green 30 %, brown 15 %, brightness 90 gave mloukhia at 0.92
ScenarioBClassified ==
    /\ pc = "returned"
    /\ ~TallImage
    /\ PctIs("green", 30)
    /\ PctIs("brown", 15)
    /\ BrightnessIs(90)
    /\ recognized.foods[1].name = Name.mloukhia
    /\ recognized.foods[1].confidence = 92

\* C5: each of the eight bucket percentages lies in [0, 100] and the eight sum
\* to at most 100, i.e. each count is within 0..num_pixels and so is their sum.
PercentagesWithin100 ==
    pc = "returned" =>
        LET a == recognized.analysis
        IN  /\ \A k \in Buckets : a.count[k] >= 0 /\ a.count[k] <= a.num_pixels
            /\ Sum([i \in 1..8 |-> a.count[BucketOrder[i]]]) <= a.num_pixels

\* an image holding a colour that meets the tests of two buckets (orange and
\* red), a colour of no bucket, and a white run was analysed
MixedImageAnalysed ==
    /\ pc = "returned"
    /\ \E i \in DOMAIN image.pixels : image.pixels[i].rgb = <<190, 100, 50>>
    /\ \E i \in DOMAIN image.pixels : image.pixels[i].rgb = <<30, 30, 200>>
    /\ recognized.analysis.count["orange"] > 0
    /\ recognized.analysis.count["red"] = 0
    /\ recognized.analysis.count["white"] > 0

(***************************************************************************)
(* Properties of the nutrition lookup.                                     *)
(***************************************************************************)
RequestKey == Str(Strip(Lower(request.food_name)))
InTable == RequestKey \in DOMAIN FOOD_DATABASE

\* tenths is per100 (hundredths per 100 units) * quantity / 100 to one decimal
Scaled(tenths, per100, quantity) ==
    /\ tenths * 1000 - per100 * quantity <= 500
    /\ per100 * quantity - tenths * 1000 <= 500

\* C6: for a name whose lower-cased, trimmed form is a table key and a supplied
\* quantity q, the record holds the table's per-100 values times q / 100
\* (to one decimal), quantity q and source local_database, whatever the case
\* and surrounding spaces of the name; chicken breast, 300 gives calories
\* 495.0 and protein_g 93.0.
LocalLookupScales ==
    (pc = "returned" /\ InTable /\ request.quantity # None) =>
        LET q == request.quantity[1]
            food == FOOD_DATABASE[RequestKey]
        IN  /\ ~nutrition.raised
            /\ nutrition.source = "local_database"
            /\ nutrition.quantity = q
            /\ Scaled(nutrition.calories, food.calories, q)
            /\ Scaled(nutrition.protein_g, food.protein, q)
            /\ Scaled(nutrition.carbs_g, food.carbs, q)
            /\ Scaled(nutrition.fats_g, food.fats, q)
            /\ (RequestKey = "chicken breast" /\ q = 300) =>
                    nutrition.calories = 4950 /\ nutrition.protein_g = 930

\* scenario C in another spelling: "  Chicken Breast ", 300, "g"
ScenarioCResolved ==
    /\ pc = "returned"
    /\ request.food_name = <<" "," ","C","h","i","c","k","e","n"," ","B","r","e","a","s","t"," ">>
    /\ request.quantity = Some(300)
    /\ request.unit = Some("g")
    /\ nutrition.source = "local_database"
    /\ nutrition.calories = 4950
    /\ nutrition.protein_g = 930

\* C7: for a name in the table and a quantity missing or 0, the record's
\* quantity is the table's serving_size and its values are scaled by
\* serving_size / 100.
ZeroOrMissingQuantityUsesServing ==
    (pc = "returned" /\ InTable /\ request.quantity \in {None, Some(0)}) =>
        LET food == FOOD_DATABASE[RequestKey]
        IN  /\ ~nutrition.raised
            /\ nutrition.quantity = food.serving_size
            /\ Scaled(nutrition.calories, food.calories, food.serving_size)
            /\ Scaled(nutrition.protein_g, food.protein, food.serving_size)
            /\ Scaled(nutrition.carbs_g, food.carbs, food.serving_size)
            /\ Scaled(nutrition.fats_g, food.fats, food.serving_size)

\* C8: every record returned has quantity > 0 and calories >= 0.
PositiveQuantityNonNegativeCalories ==
    (pc = "returned" /\ ~nutrition.raised) =>
        nutrition.quantity > 0 /\ nutrition.calories >= 0

\* C9: for a name not in the table the call never raises; without an API key,
\* or when the API call fails, it returns the estimate of 150 kcal, 8 g, 15 g,
\* 6 g per 100 units scaled by quantity / 100 (quantity 100 when it is missing
\* or 0), with source "estimated" and a note.
UnknownFoodEstimated ==
    (pc = "returned" /\ ~InTable) =>
        /\ ~nutrition.raised
        /\ (nutrition_api_key = "" \/ request.response.kind # "ok") =>
              LET q == IF request.quantity \in {None, Some(0)} THEN 100
                       ELSE request.quantity[1]
              IN  /\ nutrition.source = "estimated"
                  /\ "note" \in DOMAIN nutrition
                  /\ nutrition.quantity = q
                  /\ Scaled(nutrition.calories, 15000, q)
                  /\ Scaled(nutrition.protein_g, 800, q)
                  /\ Scaled(nutrition.carbs_g, 1500, q)
                  /\ Scaled(nutrition.fats_g, 600, q)

\* the API was called for an unknown food, failed, and the estimate came back
ApiFailureEstimated ==
    /\ pc = "returned"
    /\ ~InTable
    /\ nutrition_api_key # ""
    /\ request.response.kind = "timeout"
    /\ request.quantity = Some(150)
    /\ ~nutrition.raised
    /\ nutrition.source = "estimated"
    /\ nutrition.calories = 2250

\* the lookup of an unknown food went to the API and the API answered
ApiAnswered ==
    /\ ~InTable
    /\ nutrition_api_key # ""
    /\ request.response.kind = "ok"

\* C10 as stated: the source is one of local_database, external_api,
\* estimated, and a successful API lookup is tagged external_api.
SourceInSpecEnum ==
    (pc = "returned" /\ ~nutrition.raised) =>
        /\ nutrition.source \in {"local_database", "external_api", "estimated"}
        /\ ApiAnswered => nutrition.source = "external_api"

\* C10 amended: the source is one of local_database, usda_api, estimated, and
\* a successful API lookup is tagged usda_api.
SourceInCodeEnum ==
    (pc = "returned" /\ ~nutrition.raised) =>
        /\ nutrition.source \in {"local_database", "usda_api", "estimated"}
        /\ ApiAnswered => nutrition.source = "usda_api"

\* a successful API lookup returned its record
ApiLookupTagged ==
    /\ pc = "returned"
    /\ ApiAnswered
    /\ nutrition.source = "usda_api"
    /\ nutrition.calories = 600


(***************************************************************************)
(* Meal totals, macro percentages, unreadable images, repeated calls       *)
(***************************************************************************)
\* the items of the request that have a name
NamedItems == {i \in 1..Len(food_items) : ItemFoodName(food_items[i]) # <<>>}

\* C11: analyze_meal returns totals whose calories, protein_g, carbs_g and
\* fats_g are the sums of that field over the item records it returns; the
\* items without a name are left out and item_count is the number of records
\* returned; for the empty list every total is 0 and the macro percentages
\* of these totals are 0.
TotalsAreItemSums ==
    (pc = "returned" /\ analysis # None) =>
        /\ ~analysis.raised
        /\ Len(analysis.items) = Cardinality(NamedItems)
        /\ analysis.item_count = Len(analysis.items)
        /\ analysis.totals.calories
             = Sum([i \in 1..Len(analysis.items) |-> analysis.items[i].calories])
        /\ analysis.totals.protein_g
             = Sum([i \in 1..Len(analysis.items) |-> analysis.items[i].protein_g])
        /\ analysis.totals.carbs_g
             = Sum([i \in 1..Len(analysis.items) |-> analysis.items[i].carbs_g])
        /\ analysis.totals.fats_g
             = Sum([i \in 1..Len(analysis.items) |-> analysis.items[i].fats_g])
        /\ food_items = <<>> =>
              /\ analysis.totals = [calories |-> 0, protein_g |-> 0, carbs_g |-> 0, fats_g |-> 0]
              /\ CalculateMacroPercentages(analysis.totals.protein_g, analysis.totals.carbs_g,
                                           analysis.totals.fats_g)
                   = {[protein_percentage |-> 0, carbs_percentage |-> 0, fats_percentage |-> 0]}

\* a list of three items of which one has no name: two records, summed
NamelessItemSkipped ==
    /\ pc = "returned"
    /\ analysis # None
    /\ Len(food_items) = 3
    /\ Cardinality(NamedItems) = 2
    /\ analysis.item_count = 2
    /\ analysis.items[1].calories > 0
    /\ analysis.items[2].calories > 0
    /\ analysis.totals.calories = analysis.items[1].calories + analysis.items[2].calories

\* C12: for non-negative gram totals with 4p + 4c + 9f > 0 the three
\* percentages add up to 100 within 1, in both variants; with a total of 0
\* they are 0, 0, 0.
MacroPercentagesSumTo100 ==
    (pc = "returned" /\ percentages # None) =>
        LET total_cal == 4 * grams.protein + 4 * grams.carbs + 9 * grams.fats
            r == percentages.routes
            s == percentages.service
            routes_sum == r.protein_percentage + r.carbs_percentage + r.fats_percentage
            service_sum == s.protein + s.carbs + s.fats
        IN  IF total_cal > 0
            THEN /\ 9900 <= routes_sum /\ routes_sum <= 10100
                 /\ 990 <= service_sum /\ service_sum <= 1010
            ELSE /\ r = [protein_percentage |-> 0, carbs_percentage |-> 0,
                         fats_percentage |-> 0]
                 /\ s = [protein |-> 0, carbs |-> 0, fats |-> 0]

\* totals whose rounded percentages do not add up to exactly 100.00
RoundedSumOff ==
    /\ pc = "returned"
    /\ percentages # None
    /\ grams.fats > 0
    /\ percentages.routes.protein_percentage + percentages.routes.carbs_percentage
         + percentages.routes.fats_percentage = 10001

\* C13: an image file that is missing, corrupt or unreadable makes the
\* recognition report an error to its caller, not a successful result.
UnreadableImageIsError ==
    (pc = "returned" /\ "unreadable" \in DOMAIN image) => ~recognized.success

\* C14: the recognition calls made on one image, in either service module,
\* return the same ordered candidates with the same confidences.
RepeatedCallsAgree ==
    \A i, j \in 1..Len(calls) : calls[i].foods = calls[j].foods

(***************************************************************************)
(* Registration and login                                                  *)
(***************************************************************************)
\* no two rows of the users table share a username or an email
UniqueUsers ==
    \A u, v \in users : (u.username = v.username \/ u.email = v.email) => u = v

\* the register request being answered names the username or the email of a row
\* that is in the table when the request arrives
RegisterNamesExistingUser ==
    /\ http_request'.endpoint = "register"
    /\ http_request'.body # None
    /\ LET data == http_request'.body[1]
       IN  \E u \in users :
              \/ /\ data.username # None
                 /\ data.username[1].type = "string"
                 /\ data.username[1].chars = u.username
              \/ /\ data.email # None
                 /\ data.email[1].type = "string"
                 /\ data.email[1].chars = u.email

\* C15: after any sequence of register and google-login requests no two users
\* share a username or an email, and a register request whose username or
\* email already belongs to a user is answered with status 400 and success
\* false and creates no user.
DuplicateRegisterRejected ==
    /\ []UniqueUsers
    /\ [][RegisterNamesExistingUser =>
             /\ http_response'.status = 400
             /\ ~http_response'.success
             /\ users' = users]_vars

\* C16: a login request with the username of a registered user and that user's
\* password is answered with status 200, success true and a token in the data.
LoginAnswersWithToken ==
    (/\ http_request # None
     /\ http_request.endpoint = "login"
     /\ http_request.body # None
     /\ http_request.body[1].username # None
     /\ http_request.body[1].password # None
     /\ \E u \in users :
           /\ http_request.body[1].username[1] = String(u.username)
           /\ verify_password(http_request.body[1].password[1], u.password_hash))
    => /\ http_response.status = 200
       /\ http_response.success
       /\ "token" \in DOMAIN http_response.data

(***************************************************************************)
(* Workouts                                                                *)
(***************************************************************************)
\* C17: a request to a token-protected endpoint whose Authorization header is
\* missing or carries an invalid or expired token is answered with status
\* 401, and no workout and no workout exercise is created, changed or deleted.
UnauthenticatedIs401 ==
    [][http_request'.request.authorization \in BadAuthorizations =>
          /\ http_response'.status = 401
          /\ workouts' = workouts
          /\ workout_exercises' = workout_exercises]_vars

\* C18: the workout that a create request stores and returns has status
\* in_progress; every stored workout whose status is completed has
\* completed_at set; and the response to an update that sets status to
\* completed shows status completed and a completed_at value.
CompletedHasCompletedAt ==
    /\ \A w \in workouts : w.status = "completed" => w.completed_at # None
    /\ (request_count > 0 /\ http_response.status = 201
        /\ http_request.endpoint = "create_workout")
       => /\ http_response.data.status = "in_progress"
          /\ \E w \in workouts : /\ w.workout_id = http_response.data.workout_id
                                 /\ w.status = "in_progress"
    /\ (request_count > 0 /\ http_response.status = 200
        /\ http_request.endpoint = "update_workout"
        /\ http_request.request.body[1].status = Some("completed"))
       => /\ http_response.data.status = "completed"
          /\ http_response.data.completed_at # None

\* a workout with an exercise in it has just been completed by its owner
WorkoutCompleted ==
    /\ request_count > 0
    /\ http_request.endpoint = "update_workout"
    /\ http_response.status = 200
    /\ http_response.data.status = "completed"
    /\ http_response.data.exercises # {}
    /\ \E w \in workouts : w.status = "in_progress"

\* C19: an exercise added with sets s and reps r and no duration is stored and
\* returned with calories_burned less than 1.0 away from
\* s * r * typical_calories_per_minute / 10.
CaloriesFromSetsAndReps ==
    [][(http_response'.status = 201
        /\ http_request'.request.body[1].duration_seconds = None) =>
          LET data == http_request'.request.body[1]
              exercise == CHOOSE e \in exercises : e.exercise_id = data.exercise_id[1]
              expected == data.sets[1] * data.reps[1]
                              * exercise.typical_calories_per_minute
              Near(calories) == calories - expected < 100 /\ expected - calories < 100
          IN  /\ Near(http_response'.data.calories_burned)
              /\ \A r \in workout_exercises' \ workout_exercises :
                    Near(r.calories_burned)]_vars

\* no row of workout_exercises refers to a workout that is not stored
NoOrphanExercises ==
    \A r \in workout_exercises : \E w \in workouts : w.workout_id = r.workout_id

\* the request being answered is a delete of a stored workout by its owner
DeleteByOwner ==
    /\ http_request'.endpoint = "delete_workout"
    /\ http_request'.request.authorization \notin BadAuthorizations
    /\ \E w \in workouts :
          /\ w.workout_id = http_request'.request.workout_id
          /\ w.user_id = http_request'.request.authorization[1].sub

\* C20: deleting a workout by its owner succeeds and removes the workout and
\* all of its workout exercises, and in every reachable state no stored
\* workout exercise refers to a workout that does not exist.
DeleteRemovesExercises ==
    /\ []NoOrphanExercises
    /\ [][DeleteByOwner =>
             /\ http_response'.status = 200
             /\ http_response'.success
             /\ \A w \in workouts' : w.workout_id # http_request'.request.workout_id
             /\ \A r \in workout_exercises' :
                   r.workout_id # http_request'.request.workout_id]_vars

\* a workout has just been deleted while exercises of another workout remain
WorkoutDeleted ==
    /\ request_count > 0
    /\ http_request.endpoint = "delete_workout"
    /\ http_response.status = 200
    /\ workouts # {}
    /\ workout_exercises # {}

(***************************************************************************)
(* Two-step login                                                          *)
(***************************************************************************)
\* the step answers a verify-login request
VerifyLoginAnswered ==
    request_count' # request_count /\ http_request'.endpoint = "verify_login"

\* the rows of verification_codes that the verify-login request being
\* answered names and that are not used when it arrives
NamedUnused ==
    IF http_request'.body = None THEN {}
    ELSE {v \in verification_codes :
              /\ Some(v.user_id) = http_request'.body[1].user_id
              /\ Some(v.code) = http_request'.body[1].code
              /\ ~v.used}

\* C21: verify-login issues a token for a user only if the submitted code
\* equals a code created for that user that is unused and not expired, and it
\* marks that code used; a verify-login that names only used codes is
\* rejected with INVALID_CODE, and a rejected verify-login issues no token.
TokenOnlyForUnusedCode ==
    [][VerifyLoginAnswered =>
          IF http_response'.status = 200
          THEN \E v \in NamedUnused :
                  /\ ~v.expired
                  /\ http_response'.data.token = generate_jwt_token(v.user_id)
                  /\ verification_codes' =
                         (verification_codes \ {v}) \cup {[v EXCEPT !.used = TRUE]}
          ELSE /\ "data" \notin DOMAIN http_response'
               /\ verification_codes' = verification_codes
               /\ (/\ http_request'.body # None
                   /\ http_request'.body[1].code # None
                   /\ \E u \in users : Some(u.user_id) = http_request'.body[1].user_id
                   /\ NamedUnused = {})
                  => /\ http_response'.status = 400
                     /\ http_response'.code = "INVALID_CODE"]_vars

\* a code that was accepted before is submitted again and rejected
UsedCodeRejected ==
    /\ request_count > 0
    /\ http_request.endpoint = "verify_login"
    /\ http_response.status = 400
    /\ http_response.code = "INVALID_CODE"
    /\ \E v \in verification_codes :
          /\ Some(v.user_id) = http_request.body[1].user_id
          /\ Some(v.code) = http_request.body[1].code
          /\ v.used /\ ~v.expired
          /\ \A w \in verification_codes : w.user_id = v.user_id => w = v

\* C22: each user has at most one unused verification code, and verify-login
\* never accepts a code of a user that was issued before that user's most
\* recent one.
OnlyNewestCodeAccepted ==
    /\ [](\A v, w \in verification_codes :
              (v.user_id = w.user_id /\ ~v.used /\ ~w.used) => v = w)
    /\ [][(VerifyLoginAnswered /\ http_response'.status = 200) =>
             \A v \in NamedUnused, w \in verification_codes :
                 w.user_id = v.user_id => w.code_id <= v.code_id]_vars

(***************************************************************************)
(* Ownership of workouts                                                   *)
(***************************************************************************)
\* the request being answered asks one of the five endpoints that change a
\* workout, with a valid token of a user who does not own the stored workout
\* that it addresses
ChangeByNonOwner ==
    /\ request_count' # request_count
    /\ http_request'.endpoint \in
           {"update_workout", "delete_workout", "add_exercise_to_workout",
            "update_workout_exercise", "remove_exercise_from_workout"}
    /\ http_request'.request.authorization \notin BadAuthorizations
    /\ \E w \in workouts :
          /\ w.workout_id = http_request'.request.workout_id
          /\ w.user_id # http_request'.request.authorization[1].sub

\* C23: update_workout, delete_workout, add_exercise_to_workout,
\* update_workout_exercise and remove_exercise_from_workout, asked by an
\* authenticated user who does not own the addressed workout, answer 403 and
\* change no workout and no workout exercise; a request that validation
\* rejects (status 422) changes none either.
NonOwnerIs403 ==
    [][/\ ChangeByNonOwner =>
              /\ http_response'.status = 403
              /\ workouts' = workouts
              /\ workout_exercises' = workout_exercises
       /\ (request_count' # request_count /\ http_response'.status = 422) =>
              /\ workouts' = workouts
              /\ workout_exercises' = workout_exercises]_vars

\* the part of C23 that the handlers keep: a non-owner's request changes
\* nothing and is answered 403 or, when its body is rejected first, 422
NonOwnerChangesNothing ==
    [][/\ ChangeByNonOwner =>
              /\ http_response'.status \in {403, 422}
              /\ workouts' = workouts
              /\ workout_exercises' = workout_exercises
       /\ (request_count' # request_count /\ http_response'.status = 422) =>
              /\ workouts' = workouts
              /\ workout_exercises' = workout_exercises]_vars

\* C24: no read endpoint of the workouts (the detail of a workout, the list
\* by user id, the recent workouts, the workouts by date) answers a request
\* with data of a workout that is owned by another user than the one whose
\* token the request carries.
ReadsOnlyOwnWorkouts ==
    (/\ request_count > 0
     /\ http_request.endpoint \in {"get_workout", "list_workouts",
                                   "get_recent_workouts", "get_workouts_by_date"}
     /\ http_response.status = 200)
    => LET returned == IF http_request.endpoint = "get_workout"
                       THEN {http_response.data} ELSE http_response.data
       IN  \A w \in returned :
               w.user_id = http_request.request.authorization[1].sub

(***************************************************************************)
(* Totals and order of the exercises of a workout                          *)
(***************************************************************************)
\* C26: in every state reached by add-exercise, update-exercise,
\* remove-exercise and status update requests, a workout whose status is
\* completed has total_calories_burned equal to the sum of calories_burned
\* over the workout exercises it has in that state.
CompletedTotalIsSum ==
    \A w \in workouts :
        w.status = "completed" =>
            w.total_calories_burned =
                SumCalories({r \in workout_exercises : r.workout_id = w.workout_id})

\* the exercises of one workout have pairwise distinct order_in_workout
DistinctOrders ==
    \A r1, r2 \in workout_exercises :
        (r1.workout_id = r2.workout_id /\ r1.order_in_workout = r2.order_in_workout)
            => r1 = r2

\* C27: within one workout the order_in_workout values are pairwise distinct,
\* and an exercise added through either add-exercise endpoint gets a value
\* greater than that of every exercise the workout has at that moment, over
\* all sequences of add and remove requests handled one after the other.
NewExerciseIsLast ==
    /\ []DistinctOrders
    /\ [][(/\ http_response'.status = 201
           /\ http_request'.endpoint \in
                  {"add_exercise_to_workout", "ml_add_exercise_to_workout"})
          => \A new \in workout_exercises' \ workout_exercises :
                 \A r \in workout_exercises :
                     r.workout_id = new.workout_id
                         => r.order_in_workout < new.order_in_workout]_vars

\* the second endpoint has just added an exercise to a workout whose first
\* exercise had been removed, so the workout holds the orders 2 and 3
AddedAfterRemove ==
    /\ request_count > 0
    /\ http_request.endpoint = "ml_add_exercise_to_workout"
    /\ http_response.status = 201
    /\ http_response.data.order_in_workout = 3
    /\ \E r \in workout_exercises :
          /\ r.workout_id = http_request.request.body[1].workout_id[1]
          /\ r.order_in_workout = 2
    /\ ~\E r \in workout_exercises : r.order_in_workout = 1

(***************************************************************************)
(* The colour buckets and the starch branch of the classifier              *)
(***************************************************************************)
\* the ordered rules below the cream/beige rule
RulesBelowCream(r, g, b) ==
    IF g >= r /\ g >= b /\ g > 60 THEN {"green"}
    ELSE IF r > 180 /\ 80 < g /\ g < 160 /\ b < 100 THEN {"orange"}
    ELSE IF r > 150 /\ r - g > 30 /\ r - b > 30 THEN {"red"}
    ELSE IF r > 180 /\ g > 150 /\ b <= 100 THEN {"yellow"}
    ELSE IF 60 < r /\ r < 150 /\ 40 < g /\ g < 120 /\ b < 80 THEN {"brown"}
    ELSE {}

\* the ordered rules with the cream/beige rule as the claim words it
StatedRules(r, g, b) ==
    IF r > 200 /\ g > 200 /\ b > 200 THEN {"white"}
    ELSE IF r > 170 /\ g > 150 /\ b >= 95
    THEN (IF r - b > 50 THEN {"beige"} ELSE {"cream"})
    ELSE RulesBelowCream(r, g, b)

\* the ordered rules with a cream/beige rule that also asks for R > B
ReddishRules(r, g, b) ==
    IF r > 200 /\ g > 200 /\ b > 200 THEN {"white"}
    ELSE IF r > 170 /\ g > 150 /\ b >= 95 /\ r > b
    THEN (IF r - b > 50 THEN {"beige"} ELSE {"cream"})
    ELSE RulesBelowCream(r, g, b)

\* C28 as stated: the bucket counted for a pixel is the one the ordered rules
\* give (cream/beige: R > 170, G > 150, B >= 95), and a pixel that matches no
\* rule is counted in no bucket.
PixelBucketAsStated ==
    pc = "returned" => recognized = StatedRules(image[1], image[2], image[3])

\* C28, amended: the bucket counted for a pixel is the one the ordered rules
\* give when the cream/beige rule is R > 170, G > 150, B >= 95 and R > B; a
\* pixel that matches no rule is counted in no bucket, and no pixel is
\* counted in two.
PixelBucketAsReddish ==
    pc = "returned" =>
        /\ recognized = ReddishRules(image[1], image[2], image[3])
        /\ Cardinality(recognized) <= 1

\* a pixel with R > 170, G > 150, B >= 95 that is not white and has R <= B
\* has been classified: it is green or in no bucket, not cream
BluishPixelClassified ==
    /\ pc = "returned"
    /\ image[1] > 170 /\ image[2] > 150 /\ image[3] >= 95
    /\ image[1] <= image[3]
    /\ ~(image[1] > 200 /\ image[2] > 200)
    /\ recognized \in {{}, {"green"}}

\* the starch that the claim names for the statistics s of the beige/cream
\* branch, <<>> where none of its four cases applies
StatedStarch(s) ==
    IF PctGT(s, "white", 25) THEN <<Food(Name.white_rice, 95)>>
    ELSE IF PctGT(s, "beige", 22) /\ s.count["beige"] >= s.count["cream"]
    THEN <<Food(Name.couscous, 92)>>
    ELSE IF PctGT(s, "cream", 22) /\ PctGT(s, "yellow", 8)
    THEN <<Food(Name.pasta, 91)>>
    ELSE IF PctGT(s, "cream", 22) THEN <<Food(Name.white_rice, 88)>>
    ELSE <<>>

\* C29: for statistics of the beige/cream branch (green% <= 20 and beige% > 25
\* or cream% > 30) the list the colour chain emits holds exactly one starch
\* label, as its first candidate, and it is the one of the four cases of the
\* claim; one of the four always applies, so the first candidate is never
\* the fallback, pasta at confidence 0.85.
OneStarchFirst ==
    LET s == image.statistics
        starch == {Name.white_rice, Name.couscous, Name.pasta}
        foods == SelectFoods(s)
    IN  (/\ pc = "returned"
         /\ ~PctGT(s, "green", 20)
         /\ PctGT(s, "beige", 25) \/ PctGT(s, "cream", 30))
        => /\ StatedStarch(s) # <<>>
           /\ foods # <<>>
           /\ foods[1] = StatedStarch(s)[1]
           /\ Cardinality({i \in 1..Len(foods) : foods[i].name \in starch}) = 1
           /\ foods[1] # Food(Name.pasta, 85)

\* an image with more cream than beige, both above 25 percent, and little
\* yellow has been recognized: its first candidate is white rice at 0.88
CreamOverBeige ==
    /\ pc = "returned"
    /\ PctGT(image.statistics, "beige", 25)
    /\ image.statistics.count["cream"] > image.statistics.count["beige"]
    /\ ~PctGT(image.statistics, "yellow", 8)
    /\ recognized.foods[1].name = Name.white_rice
    /\ recognized.foods[1].confidence = 88

(***************************************************************************)
(* Equipment recognition                                                   *)
(***************************************************************************)
\* the places in the equipment table of the equipments with a keyword that
\* the file name, in lower case, contains
KeywordPlaces ==
    {i \in 1..Len(GYM_EQUIPMENT_DATABASE) :
        \E j \in 1..Len(GYM_EQUIPMENT_DATABASE[i].keywords) :
            Contains(Lower(image.filename), GYM_EQUIPMENT_DATABASE[i].keywords[j])}

\* C30: a file name that contains a keyword gives the first equipment of the
\* table that has such a keyword, at confidence 0.75, and that is the result
\* unless the image model returns a match with confidence strictly above
\* 0.75; when neither the file name nor the image model matches, the result
\* is dumbbell at 0.5; the key returned is always a key of the table.
FilenameFirst ==
    pc = "returned" =>
        /\ \E i \in 1..Len(GYM_EQUIPMENT_DATABASE) :
              GYM_EQUIPMENT_DATABASE[i].key = recognized.equipment_key
        /\ (KeywordPlaces # {} /\ ~(image.ml.match # None /\ image.ml.confidence > 75))
           => /\ \E i \in KeywordPlaces :
                    /\ \A k \in KeywordPlaces : i <= k
                    /\ recognized.equipment_key = GYM_EQUIPMENT_DATABASE[i].key
              /\ recognized.confidence = 75
        /\ (KeywordPlaces # {} /\ image.ml.match # None /\ image.ml.confidence > 75)
           => /\ recognized.equipment_key = image.ml.match[1]
              /\ recognized.confidence = image.ml.confidence
        /\ (KeywordPlaces = {} /\ image.ml.match = None)
           => /\ recognized.equipment_key = "dumbbell"
              /\ recognized.confidence = 50

\* a file named after a pull-up bar, which the image model takes for one at
\* exactly 0.75, has been classified as a barbell: "bar" is a keyword of the
\* barbell, which comes first in the table
FirstInTableWins ==
    /\ pc = "returned"
    /\ Cardinality(KeywordPlaces) > 1
    /\ image.ml = [match |-> Some("pull_up_bar"), confidence |-> 75]
    /\ recognized.equipment_key = "barbell"
    /\ recognized.confidence = 75

\* a file whose name holds no keyword, and that the image model does not
\* match, has been classified
NothingMatched ==
    /\ pc = "returned"
    /\ image.filename # <<>>
    /\ KeywordPlaces = {}
    /\ image.ml.match = None
    /\ recognized.equipment_key = "dumbbell"

(***************************************************************************)
(* Meals                                                                   *)
(***************************************************************************)
\* C25: after any sequence of create_meal, add_item_to_meal and update_meal
\* requests, every stored meal with at least one item has total_calories,
\* protein_g, carbs_g and fats_g equal, up to the rounding to one decimal
\* (a tenth either way), to the sums of these values over its items.
MealTotalsAreItemSums ==
    \A m \in meals :
        LET items == {i \in meal_items : i.meal_id = m.meal_id}
            Total(field) ==
                LET total[rest \in SUBSET items] ==
                        IF rest = {} THEN 0
                        ELSE LET i == CHOOSE i \in rest : TRUE
                             IN  i[field] + total[rest \ {i}]
                IN  total[items]
        IN  items # {} =>
                /\ m.total_calories - Total("calories") \in -1..1
                /\ m.protein_g - Total("protein_g") \in -1..1
                /\ m.carbs_g - Total("carbs_g") \in -1..1
                /\ m.fats_g - Total("fats_g") \in -1..1
====
